---- MODULE Spec2Model ----
(***************************************************************************)
(* A state-machine model of the simulation core of the tower-defence game: *)
(*   - WaveManager   (src/src/waves/wave_manager.py)                        *)
(*   - BaseTower     (src/src/towers/base_tower.py)                        *)
(*   - Projectile    (src/src/towers/projectile.py)                        *)
(*   - advance_along_path (src/src/maps/waypoint.py)                       *)
(*   - BaseEnemy     (src/src/enemies/base_enemy.py)                       *)
(*   - BuildManager  (src/src/ui/build_manager.py)                         *)
(*                                                                         *)
(* Time is counted in whole ticks: spawn times, elapsed and delta_time are *)
(* naturals.  Every spawn of a wave definition carries a distinct enemy    *)
(* label (its position in the definition as passed to the constructor), so *)
(* the order in which the spawn callback is invoked is observable; a wave  *)
(* with repeated enemy types is a projection of such a wave.               *)
(***************************************************************************)
EXTENDS Integers, Sequences, FiniteSets, TLC

\* ------------------------------------------------------------- bounds
MaxWaves == 2        \* waves in a wave table
MaxSpawns == 2       \* spawns in a wave table, over all its waves
MaxTime == 2         \* largest spawn_time
MaxDt == 2           \* largest delta_time of one update call
MaxCalls == 3        \* start_next_wave returns kept in start_run and idle_starts
MaxCoord == 2        \* enemy positions are the grid points of 0..MaxCoord squared
MaxEnemies == 2      \* candidates handed to a tower
MaxRange == 2        \* largest tower range
MaxRate == 2         \* largest fire_rate, in shots per second
MaxDamage == 1       \* largest damage of a tower before its upgrades
MaxSpeed == 1        \* largest projectile_speed, in lane units per tick
MaxHealth == 2       \* largest health an enemy starts with
MaxProjectiles == 2  \* projectiles a tower has in flight
MaxBonus == 1        \* largest bonus of an upgrade
MaxRungs == 1        \* rungs of an upgrade ladder
MaxPath == 3         \* waypoints of a path
MaxThreshold == 1    \* largest arrival_threshold and arrival_tolerance
MaxLives == 2        \* lives a player starts with
MaxTile == 2         \* largest tile_size, in pixels
MaxMouse == 2        \* largest coordinate of a mouse position, in pixels
MaxMoney == 2        \* largest money passed to a call, largest cost of a button
MaxOccupied == 1     \* cells in the caller's set of occupied tiles
MaxFoes == 1         \* enemies of a combat
MaxRivals == 2       \* enemies within reach of a tower that holds a target
MaxBlueprints == 2   \* blueprints handed to apply_difficulty
MaxScaledWave == 3   \* largest wave number of a blueprint whose stats are compared
MaxCadenceWave == 9  \* largest wave number of a blueprint whose special is looked at
MaxBase == 2         \* largest base_health and base_speed of a blueprint
MaxCount == 2        \* largest count of a blueprint
MaxGrowth == 2       \* growth rates are 0 and 1/k for k up to MaxGrowth
MaxFrequency == 3    \* largest special_frequency
MaxSpecials == 3     \* largest number of extra_specials

VARIABLES
    raw_waves,       \* the `waves` argument of WaveManager.__init__
    waves,           \* WaveManager._waves
    loop_waves,      \* WaveManager._loop_waves
    current_index,   \* WaveManager._current_index
    state,           \* WaveManager._state: None or a WaveState
    called,          \* the last call made on the manager, and what it returned
    spawned,         \* enemy types the last call passed to the spawn callback
    probe,           \* which history is kept: "spawns" (timing, wave_log,
                     \* seeded_by, updated, start_run) or "progress" (twin)
    timing,          \* for each spawn of `spawned`: its spawn_time and elapsed
                     \* before and after the update that fired it
    wave_log,        \* enemies spawned since the runtime state was last seeded
    seeded_by,       \* the call that seeded the runtime state last
    updated,         \* whether update ran since the runtime state was seeded
    start_run,       \* returns of the start_next_wave calls made back to back
                     \* on the idle manager, before any other call
    idle_starts,     \* returns of the start_next_wave calls made while no wave
                     \* was active, since the manager was constructed or reset
    twin             \* a second manager on the same wave table, restored from a
                     \* snapshot of the first one and driven by the same calls

VARIABLES
    tower,           \* a BaseTower: its position, range and target
    enemies,         \* the candidates handed to the tower, in iteration order
    tower_called     \* the last call made on the tower or on a candidate

tower_vars == <<tower, enemies, tower_called>>

VARIABLES
    projectile,      \* a Projectile held by a caller that never discards it
    tick,            \* what the last update of a tower or projectile did:
                     \* whether a shot was fired, the take_damage calls made,
                     \* the projectiles that finished without one
    cadence          \* the dt accumulated since the tick of the tower's last
                     \* shot, and the dt accumulated between its last two shots

combat_vars == <<projectile, tick, cadence>>

VARIABLES
    route,           \* the path, speed and arrival_threshold of a walking entity
    walker,          \* its position and the index of the waypoint last reached
    walked           \* the last advance_along_path call: its dt and its moves

path_vars == <<route, walker, walked>>

VARIABLES
    base_enemy,      \* a BaseEnemy, or the error its constructor raised
    player,          \* the Player whose lives the enemy takes at the goal
    enemy_called     \* the last call made on the enemy

enemy_vars == <<base_enemy, player, enemy_called>>

VARIABLES
    builder,         \* a BuildManager
    occupied_tiles,  \* the caller's set of occupied grid cells
    build_called     \* the last call made on the build manager, its arguments
                     \* and what it returned

build_vars == <<builder, occupied_tiles, build_called>>

VARIABLES
    blueprints,      \* the WaveBlueprints handed to apply_difficulty
    curve,           \* the DifficultyCurve handed to it, None if it is omitted
    configs          \* the list of WaveConfigs it returned, None before the call

scaler_vars == <<blueprints, curve, configs>>

VARIABLES
    stats,           \* a PlayerStats
    stats_called     \* the last call made on it, its argument and its outcome

stats_vars == <<stats, stats_called>>

VARIABLES
    active           \* the places in `enemies` of the enemies still in the
                     \* caller's active set, the ones it passes to update

roster_vars == <<active>>

wave_vars == <<raw_waves, waves, loop_waves, current_index, state, called, spawned,
               probe, timing, wave_log, seeded_by, updated, start_run, idle_starts,
               twin>>

\* the variables a component leaves alone: those of the other components
beside_wave == <<tower_vars, combat_vars, path_vars, enemy_vars, build_vars,
                 scaler_vars, stats_vars, roster_vars>>
beside_tower == <<wave_vars, combat_vars, path_vars, enemy_vars, build_vars,
                  scaler_vars, stats_vars, roster_vars>>
beside_combat == <<wave_vars, path_vars, enemy_vars, build_vars,
                   scaler_vars, stats_vars, roster_vars>>
beside_path == <<wave_vars, tower_vars, combat_vars, enemy_vars, build_vars,
                 scaler_vars, stats_vars, roster_vars>>
beside_enemy == <<wave_vars, tower_vars, combat_vars, path_vars, build_vars,
                  scaler_vars, stats_vars, roster_vars>>
beside_scaler == <<wave_vars, tower_vars, combat_vars, path_vars, enemy_vars,
                   build_vars, stats_vars, roster_vars>>
beside_stats == <<wave_vars, tower_vars, combat_vars, path_vars, enemy_vars,
                  build_vars, scaler_vars, roster_vars>>
beside_build == <<wave_vars, tower_vars, combat_vars, path_vars, enemy_vars,
                  scaler_vars, stats_vars, roster_vars>>
\* what a combat that keeps an active set leaves alone
beside_roster == <<wave_vars, path_vars, enemy_vars, build_vars, scaler_vars,
                   stats_vars>>

\* ------------------------------------------------------------ helpers
Max(a, b) == IF a >= b THEN a ELSE b

Min(a, b) == IF a <= b THEN a ELSE b

\* the value of a one-element set: a result written The({e : x \in {v}}) is
\* e with v worked out once, however often e reads x
The(S) == CHOOSE x \in S : TRUE

\* Python's None, for WaveManager._state and for a missing twin
None == [none |-> TRUE]

\* WaveState(spawns, elapsed)
WaveState(spawns, elapsed) == [spawns |-> spawns, elapsed |-> elapsed]

\* EnemySpawn = (enemy_type, spawn_time)
EnemySpawn(enemy, time) == [enemy |-> enemy, time |-> time]

\* ------------------------------------------------- WaveManager.__init__
\* list.insert position of sorted(): behind every item whose key is <= the
\* new key, which is what keeps equal keys in their original order
SortedInsert(s, x) ==
    LET k == Cardinality({i \in 1..Len(s) : s[i].time <= x.time})
    IN  SubSeq(s, 1, k) \o <<x>> \o SubSeq(s, k + 1, Len(s))

RECURSIVE SortedByTime(_)
\* sorted(wave, key=lambda item: item[1]): a stable sort on spawn_time
SortedByTime(wave) ==
    IF wave = <<>> THEN <<>>
    ELSE SortedInsert(SortedByTime(SubSeq(wave, 1, Len(wave) - 1)), wave[Len(wave)])

\* self._waves = [sorted(...) for wave in waves]
SortedWaves(raw) == [i \in 1..Len(raw) |-> SortedByTime(raw[i])]

\* The manager's mutable fields as one value (shared by the manager and its twin)
Manager(index, st) == [current_index |-> index, state |-> st]

\* self._current_index = -1; self._state = None
NewManager == Manager(-1, None)

\* -------------------------------------------------- WaveManager, queries
\* Python indexes the wave list from 0; the model's sequences start at 1
WaveAt(w, index) == w[index + 1]

total_waves(w) == Len(w)

wave_in_progress(m) == m.state # None

current_wave_number(m) == IF m.state # None THEN m.current_index + 1 ELSE 0

\* is_finished with `>` for `>=`
is_finishedStrict(w, loop, m) ==
    /\ ~loop
    /\ m.current_index > Len(w) - 1
    /\ m.state = None

is_finished(w, loop, m) ==
    /\ ~loop
    /\ m.current_index >= Len(w) - 1
    /\ m.state = None

\* remaining_waves that counts an active wave as already played
remaining_wavesIdleCount(w, loop, m) ==
    IF loop THEN [inf |-> TRUE, n |-> 0]
    ELSE [inf |-> FALSE, n |-> Max(0, Len(w) - (m.current_index + 1))]

\* float("inf") is the value with inf set
remaining_waves(w, loop, m) ==
    IF loop THEN [inf |-> TRUE, n |-> 0]
    ELSE IF m.state = None
         THEN [inf |-> FALSE, n |-> Max(0, Len(w) - (m.current_index + 1))]
         ELSE [inf |-> FALSE, n |-> Max(0, Len(w) - m.current_index)]

\* start_next_wave that leaves out of the queue the spawns already due at time 0
start_next_waveDropsDue(w, loop, m) ==
    IF m.state # None THEN [m |-> m, ret |-> FALSE]
    ELSE LET next_index == m.current_index + 1
             wrapped == IF next_index >= Len(w) THEN 0 ELSE next_index
         IN  IF next_index >= Len(w) /\ ~(loop /\ Len(w) > 0)
             THEN [m |-> m, ret |-> FALSE]
             ELSE [m |-> Manager(wrapped,
                                 WaveState(SelectSeq(WaveAt(w, wrapped),
                                                     LAMBDA s : s.time > 0), 0)),
                   ret |-> TRUE]

\* start_next_wave without the loop_waves branch: the table is never restarted
start_next_waveNoLoop(w, loop, m) ==
    IF m.state # None THEN [m |-> m, ret |-> FALSE]
    ELSE LET next_index == m.current_index + 1
         IN  IF next_index >= Len(w)
             THEN [m |-> m, ret |-> FALSE]
             ELSE [m |-> Manager(next_index, WaveState(WaveAt(w, next_index), 0)),
                   ret |-> TRUE]

\* start_next_wave without its first check: a running wave is replaced
start_next_waveWhileActive(w, loop, m) ==
    LET next_index == m.current_index + 1
        wrapped == IF next_index >= Len(w) THEN 0 ELSE next_index
    IN  IF next_index >= Len(w) /\ ~(loop /\ Len(w) > 0)
        THEN [m |-> m, ret |-> FALSE]
        ELSE [m |-> Manager(wrapped, WaveState(WaveAt(w, wrapped), 0)), ret |-> TRUE]

\* ----------------------------------------- WaveManager.start_next_wave
start_next_wave(w, loop, m) ==
    IF m.state # None THEN [m |-> m, ret |-> FALSE]
    ELSE LET next_index == m.current_index + 1
             wrapped == IF next_index >= Len(w) THEN 0 ELSE next_index
         IN  IF next_index >= Len(w) /\ ~(loop /\ Len(w) > 0)
             THEN [m |-> m, ret |-> FALSE]
             ELSE [m |-> Manager(wrapped, WaveState(WaveAt(w, wrapped), 0)),
                   ret |-> TRUE]

\* ----------------------------------------------------- WaveManager.reset
reset(m) == Manager(-1, None)

\* ---------------------------------------------------- WaveManager.update
RECURSIVE PopDueLate(_, _, _)
\* PopDue with `<` for `<=`: a spawn is held back until elapsed exceeds its time
PopDueLate(spawns, elapsed, fired) ==
    IF spawns # <<>> /\ Head(spawns).time < elapsed
    THEN PopDueLate(Tail(spawns), elapsed, Append(fired, Head(spawns)))
    ELSE [spawns |-> spawns, fired |-> fired]

RECURSIVE PopDue(_, _, _)
\* while spawns and spawns[0][1] <= elapsed: pop(0) and fire it
PopDue(spawns, elapsed, fired) ==
    IF spawns # <<>> /\ Head(spawns).time <= elapsed
    THEN PopDue(Tail(spawns), elapsed, Append(fired, Head(spawns)))
    ELSE [spawns |-> spawns, fired |-> fired]

\* update without its last two lines: the emptied WaveState is kept
updateKeepsState(m, delta_time) ==
    IF m.state = None THEN [m |-> m, fired |-> <<>>]
    ELSE LET elapsed == m.state.elapsed + delta_time
             popped == PopDue(m.state.spawns, elapsed, <<>>)
         IN  [m |-> Manager(m.current_index, WaveState(popped.spawns, elapsed)),
              fired |-> popped.fired]

update(m, delta_time) ==
    IF m.state = None THEN [m |-> m, fired |-> <<>>]
    ELSE LET elapsed == m.state.elapsed + delta_time
             popped == PopDue(m.state.spawns, elapsed, <<>>)
         IN  [m |-> Manager(m.current_index,
                            IF popped.spawns = <<>> THEN None
                            ELSE WaveState(popped.spawns, elapsed)),
              fired |-> popped.fired]

\* ----------------------------- WaveManager.serialize_progress / load_progress
serialize_progress(m) ==
    [current_index |-> m.current_index,
     wave_in_progress |-> wave_in_progress(m),
     remaining_spawns |-> IF m.state # None THEN m.state.spawns ELSE <<>>,
     elapsed |-> IF m.state # None THEN m.state.elapsed ELSE 0]

\* load_progress that does not read "elapsed": the timer restarts at 0
load_progressNoElapsed(w, m, data) ==
    LET index == data.current_index
    IN  IF index < -1 \/ index >= Len(w)
        THEN [m |-> m, ret |-> "ValueError"]
        ELSE [m |-> Manager(index,
                            IF data.wave_in_progress /\ 0 <= index /\ index < Len(w)
                            THEN WaveState(data.remaining_spawns, 0)
                            ELSE None),
              ret |-> "ok"]

\* load_progress that assigns the index before it validates it
load_progressAssignsFirst(w, m, data) ==
    LET index == data.current_index
    IN  IF index < -1 \/ index >= Len(w)
        THEN [m |-> Manager(index, m.state), ret |-> "ValueError"]
        ELSE [m |-> Manager(index,
                            IF data.wave_in_progress /\ 0 <= index /\ index < Len(w)
                            THEN WaveState(data.remaining_spawns, data.elapsed)
                            ELSE None),
              ret |-> "ok"]

\* load_progress that takes len(waves) for a valid index
load_progressToTheLength(w, m, data) ==
    LET index == data.current_index
    IN  IF index < -1 \/ index > Len(w)
        THEN [m |-> m, ret |-> "ValueError"]
        ELSE [m |-> Manager(index,
                            IF data.wave_in_progress /\ 0 <= index /\ index < Len(w)
                            THEN WaveState(data.remaining_spawns, data.elapsed)
                            ELSE None),
              ret |-> "ok"]

\* WaveManager.load_progress
load_progress(w, m, data) ==
    LET index == data.current_index
    IN  IF index < -1 \/ index >= Len(w)
        THEN [m |-> m, ret |-> "ValueError"]
        ELSE [m |-> Manager(index,
                            IF data.wave_in_progress /\ 0 <= index /\ index < Len(w)
                            THEN WaveState(data.remaining_spawns, data.elapsed)
                            ELSE None),
              ret |-> "ok"]

\* ================================================================ BaseTower
\* a Target: a position and is_alive()
Target(position, alive) == [position |-> position, alive |-> alive]

\* BaseTower(position, range, ...); target is 0 for None, else the place of
\* the held enemy among the candidates
BaseTower(position, range, target) ==
    [position |-> position, range |-> range, target |-> target]

\* closest_distance = float("inf"), below every squared distance
Infinity == -1

\* BaseTower.distance_to, squared: positions and ranges are integers here, and
\* for non-negative numbers d <= r exactly if d*d <= r*r, d < e exactly if
\* d*d < e*e, so every comparison of the code is made on the squares
distance_to(self, target) ==
    LET dx == target.position[1] - self.position[1]
        dy == target.position[2] - self.position[2]
    IN  dx * dx + dy * dy

\* distance <= self.range
WithinRange(self, distance) == distance <= self.range * self.range

\* distance < closest_distance
Closer(distance, closest_distance) ==
    closest_distance = Infinity \/ distance < closest_distance

RECURSIVE select_targetLastOfEquals(_, _, _, _, _)
\* select_target with `<=` for `<` against closest_distance: of two enemies
\* equally far it keeps the later one
select_targetLastOfEquals(self, candidates, i, closest, closest_distance) ==
    IF i > Len(candidates) THEN closest
    ELSE LET enemy == candidates[i]
             distance == distance_to(self, enemy)
         IN  IF ~enemy.alive
             THEN select_targetLastOfEquals(self, candidates, i + 1, closest,
                                            closest_distance)
             ELSE IF /\ WithinRange(self, distance)
                     /\ (Closer(distance, closest_distance)
                           \/ distance = closest_distance)
                  THEN select_targetLastOfEquals(self, candidates, i + 1, i, distance)
                  ELSE select_targetLastOfEquals(self, candidates, i + 1, closest,
                                                 closest_distance)

RECURSIVE select_target_from(_, _, _, _, _)
\* the loop of select_target from candidate i on
select_target_from(self, candidates, i, closest, closest_distance) ==
    IF i > Len(candidates) THEN closest
    ELSE LET enemy == candidates[i]
             distance == distance_to(self, enemy)
         IN  IF ~enemy.alive
             THEN select_target_from(self, candidates, i + 1, closest, closest_distance)
             ELSE IF WithinRange(self, distance) /\ Closer(distance, closest_distance)
                  THEN select_target_from(self, candidates, i + 1, i, distance)
                  ELSE select_target_from(self, candidates, i + 1, closest,
                                          closest_distance)

\* BaseTower.select_target: 0 for None, else the place of the enemy returned
select_target(self, candidates) ==
    select_target_from(self, candidates, 1, 0, Infinity)

\* ============================================================== Projectile
\* the square root of a perfect square: entities stand on the points of one
\* lane (see Lane), where every distance is a whole number
Sqrt(n) == CHOOSE d \in 0..n : d * d = n

\* an enemy as a tower's target: BaseEnemy.position, .alive and .health
Enemy(position, health) == [position |-> position, alive |-> TRUE, health |-> health]

\* BaseEnemy.take_damage
take_damage(self, amount) ==
    IF ~self.alive THEN self
    ELSE LET health == self.health - amount
         IN  [self EXCEPT !.health = health,
                          !.alive = IF health <= 0 THEN FALSE ELSE @]

\* Projectile(position, target, speed, damage); target is the place of the
\* enemy in the collection of all enemies
Projectile(position, target, speed, damage) ==
    [position |-> position, target |-> target, speed |-> speed, damage |-> damage,
     finished |-> FALSE]

\* one take_damage call: on which enemy, whether it was alive, with what amount
Hit(target, alive, amount) == [target |-> target, alive |-> alive, amount |-> amount]

\* what a call on a projectile leaves: the projectile, the enemies, and the
\* take_damage calls it made
Resolved(self, es, hits) == [projectile |-> self, enemies |-> es, hits |-> hits]

\* Projectile._hit_target
hit_target(self, es) ==
    IF ~es[self.target].alive
    THEN Resolved([self EXCEPT !.finished = TRUE], es, <<>>)
    ELSE Resolved([self EXCEPT !.finished = TRUE],
                  [es EXCEPT ![self.target] = take_damage(@, self.damage)],
                  <<Hit(self.target, es[self.target].alive, self.damage)>>)

\* Projectile.update that never asks whether the target is alive
Projectile_updateNoLivenessCheck(self, es, dt) ==
    LET tx == es[self.target].position[1]
        ty == es[self.target].position[2]
        dx == tx - self.position[1]
        dy == ty - self.position[2]
        distance == Sqrt(dx * dx + dy * dy)
        travel_distance == self.speed * dt
        struck == Resolved([self EXCEPT !.position = <<tx, ty>>, !.finished = TRUE],
                           [es EXCEPT ![self.target].health = @ - self.damage,
                                      ![self.target].alive =
                                          IF es[self.target].health - self.damage <= 0
                                          THEN FALSE ELSE @],
                           <<Hit(self.target, es[self.target].alive, self.damage)>>)
    IN  IF self.finished THEN Resolved(self, es, <<>>)
        ELSE IF distance = 0 \/ travel_distance >= distance THEN struck
        ELSE Resolved([self EXCEPT !.position =
                          <<self.position[1] + (dx * travel_distance) \div distance,
                            self.position[2] + (dy * travel_distance) \div distance>>],
                      es, <<>>)

\* Projectile.update that always travels speed*dt, past the target as well
Projectile_updateOvershoots(self, es, dt) ==
    LET dx == es[self.target].position[1] - self.position[1]
        dy == es[self.target].position[2] - self.position[2]
        distance == Sqrt(dx * dx + dy * dy)
        travel_distance == self.speed * dt
    IN  IF self.finished THEN Resolved(self, es, <<>>)
        ELSE IF ~es[self.target].alive
        THEN Resolved([self EXCEPT !.finished = TRUE], es, <<>>)
        ELSE IF distance = 0 THEN hit_target(self, es)
        ELSE Resolved([self EXCEPT !.position =
                          <<self.position[1] + (dx * travel_distance) \div distance,
                            self.position[2] + (dy * travel_distance) \div distance>>],
                      es, <<>>)

\* Projectile.update without the early return of a finished projectile
Projectile_updateRevives(self, es, dt) ==
    IF ~es[self.target].alive
    THEN Resolved([self EXCEPT !.finished = TRUE], es, <<>>)
    ELSE hit_target([self EXCEPT !.position = es[self.target].position], es)

\* Projectile.update
Projectile_update(self, es, dt) ==
    IF self.finished THEN Resolved(self, es, <<>>)
    ELSE IF ~es[self.target].alive
    THEN Resolved([self EXCEPT !.finished = TRUE], es, <<>>)
    ELSE LET tx == es[self.target].position[1]
             ty == es[self.target].position[2]
             x == self.position[1]
             y == self.position[2]
             dx == tx - x
             dy == ty - y
             distance == Sqrt(dx * dx + dy * dy)
             travel_distance == self.speed * dt
         IN  IF distance = 0 THEN hit_target(self, es)
             ELSE IF travel_distance >= distance
             THEN hit_target([self EXCEPT !.position = <<tx, ty>>], es)
             ELSE \* ratio = travel_distance / distance
                  Resolved([self EXCEPT !.position =
                               <<x + (dx * travel_distance) \div distance,
                                 y + (dy * travel_distance) \div distance>>],
                           es, <<>>)

\* ===================================================== BaseTower.update
\* TowerUpgrade(cost, range_bonus, fire_rate_bonus, damage_bonus)
TowerUpgrade(cost, range_bonus, fire_rate_bonus, damage_bonus) ==
    [cost |-> cost, range_bonus |-> range_bonus,
     fire_rate_bonus |-> fire_rate_bonus, damage_bonus |-> damage_bonus]

\* a BaseTower with all the fields its update reads, as the dataclass builds
\* it: no target, cooldown 0, level 1, no projectiles
NewTower(position, range, fire_rate, damage, projectile_speed, upgrades) ==
    [position |-> position, range |-> range, fire_rate |-> fire_rate,
     damage |-> damage, projectile_speed |-> projectile_speed,
     upgrades |-> upgrades, target |-> 0, cooldown |-> 0, level |-> 1,
     projectiles |-> <<>>]

RECURSIVE Factorial(_)
Factorial(n) == IF n <= 1 THEN 1 ELSE n * Factorial(n - 1)

\* dt and cooldown count ticks, fire_rate counts shots per second: a second
\* has as many ticks as make 1/fire_rate a whole number of ticks for every
\* fire rate up to MaxRate
Second == Factorial(MaxRate)

\* 1.0 / self.fire_rate if self.fire_rate > 0 else 0.0
Period(fire_rate) == IF fire_rate > 0 THEN Second \div fire_rate ELSE 0

\* BaseTower.shoot with the cooldown left as it is
shootKeepsCooldown(self, target) ==
    [self EXCEPT !.projectiles =
        Append(@, Projectile(self.position, target, self.projectile_speed, self.damage))]

\* BaseTower.shoot
shoot(self, target) ==
    [self EXCEPT !.projectiles =
                     Append(@, Projectile(self.position, target,
                                          self.projectile_speed, self.damage)),
                 !.cooldown = Period(self.fire_rate)]

\* a projectile before and after its update
Pass(before, after) == [before |-> before, after |-> after]

\* what a call on a tower leaves: the tower, the enemies, the take_damage
\* calls made, the projectiles that finished without one (in the order of
\* the pass), and whether a shot was fired
Updated(self, es, hits, misses, fired) ==
    [tower |-> self, enemies |-> es, hits |-> hits, misses |-> misses,
     fired |-> fired]

RECURSIVE update_projectiles_from(_, _, _, _)
\* the loop of update_projectiles from projectile i on; `done` is what the
\* earlier projectiles left, done.tower.projectiles being still_active
update_projectiles_from(self, i, dt, done) ==
    IF i > Len(self.projectiles) THEN done
    ELSE The({LET still_active == IF ~r.projectile.finished
                                  THEN Append(d.tower.projectiles, r.projectile)
                                  ELSE d.tower.projectiles
              IN  update_projectiles_from(
                      self, i + 1, dt,
                      Updated([d.tower EXCEPT !.projectiles = still_active],
                              r.enemies, d.hits \o r.hits,
                              IF r.projectile.finished /\ r.hits = <<>>
                              THEN Append(d.misses,
                                          Pass(self.projectiles[i], r.projectile))
                              ELSE d.misses,
                              FALSE)) :
                  r \in {Projectile_update(self.projectiles[i], done.enemies, dt)},
                  d \in {done}})

\* BaseTower.update_projectiles
update_projectiles(self, es, dt) ==
    update_projectiles_from(self, 1, dt,
                            Updated([self EXCEPT !.projectiles = <<>>], es, <<>>,
                                    <<>>, FALSE))

\* BaseTower.update that keeps a held target that has died
BaseTower_updateKeepsDead(self, es, dt) ==
    LET cooled == IF self.cooldown > 0
                  THEN [self EXCEPT !.cooldown = Max(0, self.cooldown - dt)]
                  ELSE self
        reselect(p) ==
            LET held == p.tower.target
            IN  \/ held = 0
                \/ ~WithinRange(p.tower, distance_to(p.tower, p.enemies[held]))
        aim(p) == IF reselect(p)
                  THEN [p.tower EXCEPT !.target = select_target(p.tower, p.enemies)]
                  ELSE p.tower
        fire(p, aimed) ==
            IF aimed.target # 0 /\ aimed.cooldown <= 0
            THEN Updated(shoot(aimed, aimed.target), p.enemies, p.hits, p.misses, TRUE)
            ELSE Updated(aimed, p.enemies, p.hits, p.misses, FALSE)
    IN  The({fire(p, aim(p)) : p \in {update_projectiles(cooled, es, dt)}})

\* BaseTower.update that selects a target anew on every call
BaseTower_updateAlwaysReselects(self, es, dt) ==
    LET cooled == IF self.cooldown > 0
                  THEN [self EXCEPT !.cooldown = Max(0, self.cooldown - dt)]
                  ELSE self
        aim(p) == [p.tower EXCEPT !.target = select_target(p.tower, p.enemies)]
        fire(p, aimed) ==
            IF aimed.target # 0 /\ aimed.cooldown <= 0
            THEN Updated(shoot(aimed, aimed.target), p.enemies, p.hits, p.misses, TRUE)
            ELSE Updated(aimed, p.enemies, p.hits, p.misses, FALSE)
    IN  The({fire(p, aim(p)) : p \in {update_projectiles(cooled, es, dt)}})

\* BaseTower.update(dt, enemies), the enemies being all the enemies there are
BaseTower_update(self, es, dt) ==
    LET cooled == IF self.cooldown > 0
                  THEN [self EXCEPT !.cooldown = Max(0, self.cooldown - dt)]
                  ELSE self
        reselect(p) ==
            LET held == p.tower.target
            IN  \/ held = 0
                \/ ~p.enemies[held].alive
                \/ ~WithinRange(p.tower, distance_to(p.tower, p.enemies[held]))
        aim(p) == IF reselect(p)
                  THEN [p.tower EXCEPT !.target = select_target(p.tower, p.enemies)]
                  ELSE p.tower
        fire(p, aimed) ==
            IF aimed.target # 0 /\ aimed.cooldown <= 0
            THEN Updated(shoot(aimed, aimed.target), p.enemies, p.hits, p.misses, TRUE)
            ELSE Updated(aimed, p.enemies, p.hits, p.misses, FALSE)
    IN  The({fire(p, aim(p)) : p \in {update_projectiles(cooled, es, dt)}})

\* the places of `passed`, in the order the caller's list holds them
Places(es, passed) == SelectSeq([i \in 1..Len(es) |-> i], LAMBDA i : i \in passed)

\* BaseTower.select_target(enemies) where `enemies` holds the enemies of the
\* places `passed` only: 0 for None, else the place of the enemy returned
select_target_among(self, es, passed) ==
    The(UNION {{IF r = 0 THEN 0 ELSE places[r] :
                   r \in {select_target(self, [k \in 1..Len(places) |->
                                                   es[places[k]]])}} :
               places \in {Places(es, passed)}})

\* BaseTower.update(dt, enemies) where the caller passes the enemies of the
\* places `passed` only; the target and the projectiles refer to enemies
\* whether passed or not (BaseTower_update is the case of all being passed)
BaseTower_updateAmong(self, es, passed, dt) ==
    LET cooled == IF self.cooldown > 0
                  THEN [self EXCEPT !.cooldown = Max(0, self.cooldown - dt)]
                  ELSE self
        reselect(p) ==
            LET held == p.tower.target
            IN  \/ held = 0
                \/ ~p.enemies[held].alive
                \/ ~WithinRange(p.tower, distance_to(p.tower, p.enemies[held]))
        aim(p) == IF reselect(p)
                  THEN [p.tower EXCEPT !.target =
                           select_target_among(p.tower, p.enemies, passed)]
                  ELSE p.tower
        fire(p, aimed) ==
            IF aimed.target # 0 /\ aimed.cooldown <= 0
            THEN Updated(shoot(aimed, aimed.target), p.enemies, p.hits, p.misses, TRUE)
            ELSE Updated(aimed, p.enemies, p.hits, p.misses, FALSE)
    IN  The({fire(p, aim(p)) : p \in {update_projectiles(cooled, es, dt)}})

\* BaseTower.can_upgrade
can_upgrade(self) == self.level - 1 < Len(self.upgrades)

\* BaseTower.upgrade_cost: None, or the cost of the next rung
upgrade_cost(self) ==
    IF ~can_upgrade(self) THEN None
    ELSE [cost |-> self.upgrades[self.level].cost]

\* BaseTower.apply_upgrade that starts the cooldown anew at the new fire rate
apply_upgradeRestartsCooldown(self) ==
    IF ~can_upgrade(self) THEN [tower |-> self, ret |-> FALSE]
    ELSE LET upgrade == self.upgrades[self.level]
         IN  [tower |-> [self EXCEPT !.range = @ + upgrade.range_bonus,
                                     !.fire_rate = @ + upgrade.fire_rate_bonus,
                                     !.damage = @ + upgrade.damage_bonus,
                                     !.level = @ + 1,
                                     !.cooldown =
                                         Period(self.fire_rate + upgrade.fire_rate_bonus)],
              ret |-> TRUE]

\* BaseTower.apply_upgrade that counts a level also when no rung is left
apply_upgradeClimbsOn(self) ==
    IF ~can_upgrade(self)
    THEN [tower |-> [self EXCEPT !.level = @ + 1], ret |-> FALSE]
    ELSE LET upgrade == self.upgrades[self.level]
         IN  [tower |-> [self EXCEPT !.range = @ + upgrade.range_bonus,
                                     !.fire_rate = @ + upgrade.fire_rate_bonus,
                                     !.damage = @ + upgrade.damage_bonus,
                                     !.level = @ + 1],
              ret |-> TRUE]

\* BaseTower.apply_upgrade: the tower it leaves and what it returns
apply_upgrade(self) ==
    IF ~can_upgrade(self) THEN [tower |-> self, ret |-> FALSE]
    ELSE LET upgrade == self.upgrades[self.level]
         IN  [tower |-> [self EXCEPT !.range = @ + upgrade.range_bonus,
                                     !.fire_rate = @ + upgrade.fire_rate_bonus,
                                     !.damage = @ + upgrade.damage_bonus,
                                     !.level = @ + 1],
              ret |-> TRUE]

\* ====================================================== advance_along_path
\* waypoint.py counts waypoints from 0: path[index] of the code
PathAt(path, index) == path[index + 1]

\* get_next_waypoint_index: None, or the index in a record
get_next_waypoint_index(path, index) ==
    LET next_index == index + 1
    IN  IF next_index < Len(path) THEN [index |-> next_index] ELSE None

\* math.hypot(dx, dy), for the points of an axis-parallel path
Hypot(dx, dy) == Sqrt(dx * dx + dy * dy)

\* one change of position inside advance_along_path: an arrival snap or a
\* step, from where to where, the next waypoint, the distance to it, the
\* budget left before the change, and the step taken (0 for a snap)
Move(kind, from, to, target, distance, remaining_distance, step) ==
    [kind |-> kind, from |-> from, to |-> to, target |-> target,
     distance |-> distance, remaining_distance |-> remaining_distance,
     step |-> step]

\* what advance_along_path returns, and the changes of position it made
Advanced(position, index, moves) ==
    [position |-> position, index |-> index, moves |-> moves]

RECURSIVE advance_loopOneSegment(_, _, _, _, _, _, _)
\* the loop of advance_along_path that returns on the waypoint a step has
\* reached, whatever budget is left
advance_loopOneSegment(x, y, index, remaining_distance, path, arrival_threshold, moves) ==
    LET next == get_next_waypoint_index(path, index)
    IN  IF next = None THEN Advanced(<<x, y>>, index, moves)
        ELSE
        LET target == PathAt(path, next.index)
            dx == target[1] - x
            dy == target[2] - y
            distance == Hypot(dx, dy)
            step == Min(remaining_distance, distance)
            nx == IF distance # 0 THEN x + (dx * step) \div distance ELSE x
            ny == IF distance # 0 THEN y + (dy * step) \div distance ELSE y
            made == Append(moves, Move("step", <<x, y>>, <<nx, ny>>, target, distance,
                                       remaining_distance, step))
        IN  IF distance <= arrival_threshold
            THEN advance_loopOneSegment(
                     target[1], target[2], next.index, remaining_distance, path,
                     arrival_threshold,
                     Append(moves, Move("snap", <<x, y>>, target, target, distance,
                                        remaining_distance, 0)))
            ELSE IF remaining_distance <= 0 THEN Advanced(<<x, y>>, index, moves)
            ELSE IF step < distance THEN Advanced(<<nx, ny>>, index, made)
            ELSE Advanced(<<nx, ny>>, next.index, made)

RECURSIVE advance_loopOvershoots(_, _, _, _, _, _, _)
\* the loop of advance_along_path with step = remaining_distance, not the
\* smaller of it and the distance
advance_loopOvershoots(x, y, index, remaining_distance, path, arrival_threshold, moves) ==
    LET next == get_next_waypoint_index(path, index)
    IN  IF next = None THEN Advanced(<<x, y>>, index, moves)
        ELSE
        LET target == PathAt(path, next.index)
            dx == target[1] - x
            dy == target[2] - y
            distance == Hypot(dx, dy)
            step == remaining_distance
            nx == IF distance # 0 THEN x + (dx * step) \div distance ELSE x
            ny == IF distance # 0 THEN y + (dy * step) \div distance ELSE y
            made == Append(moves, Move("step", <<x, y>>, <<nx, ny>>, target, distance,
                                       remaining_distance, step))
        IN  IF distance <= arrival_threshold
            THEN advance_loopOvershoots(
                     target[1], target[2], next.index, remaining_distance, path,
                     arrival_threshold,
                     Append(moves, Move("snap", <<x, y>>, target, target, distance,
                                        remaining_distance, 0)))
            ELSE IF remaining_distance <= 0 THEN Advanced(<<x, y>>, index, moves)
            ELSE IF step < distance THEN Advanced(<<nx, ny>>, index, made)
            ELSE Advanced(<<nx, ny>>, next.index, made)

RECURSIVE advance_loopBudgetFirst(_, _, _, _, _, _, _)
\* the loop of advance_along_path with the test of the budget made before
\* the test of the arrival
advance_loopBudgetFirst(x, y, index, remaining_distance, path, arrival_threshold, moves) ==
    LET next == get_next_waypoint_index(path, index)
    IN  IF next = None THEN Advanced(<<x, y>>, index, moves)
        ELSE
        LET target == PathAt(path, next.index)
            dx == target[1] - x
            dy == target[2] - y
            distance == Hypot(dx, dy)
            step == Min(remaining_distance, distance)
            nx == IF distance # 0 THEN x + (dx * step) \div distance ELSE x
            ny == IF distance # 0 THEN y + (dy * step) \div distance ELSE y
            made == Append(moves, Move("step", <<x, y>>, <<nx, ny>>, target, distance,
                                       remaining_distance, step))
        IN  IF remaining_distance <= 0 THEN Advanced(<<x, y>>, index, moves)
            ELSE IF distance <= arrival_threshold
            THEN advance_loopBudgetFirst(
                     target[1], target[2], next.index, remaining_distance, path,
                     arrival_threshold,
                     Append(moves, Move("snap", <<x, y>>, target, target, distance,
                                        remaining_distance, 0)))
            ELSE IF step < distance THEN Advanced(<<nx, ny>>, index, made)
            ELSE advance_loopBudgetFirst(nx, ny, next.index, remaining_distance - step,
                                         path, arrival_threshold, made)

RECURSIVE advance_loopCountsPastEnd(_, _, _, _, _, _, _)
\* the loop of advance_along_path that advances the index once more when no
\* next waypoint exists
advance_loopCountsPastEnd(x, y, index, remaining_distance, path, arrival_threshold, moves) ==
    LET next == get_next_waypoint_index(path, index)
    IN  IF next = None THEN Advanced(<<x, y>>, index + 1, moves)
        ELSE
        LET target == PathAt(path, next.index)
            dx == target[1] - x
            dy == target[2] - y
            distance == Hypot(dx, dy)
            step == Min(remaining_distance, distance)
            nx == IF distance # 0 THEN x + (dx * step) \div distance ELSE x
            ny == IF distance # 0 THEN y + (dy * step) \div distance ELSE y
            made == Append(moves, Move("step", <<x, y>>, <<nx, ny>>, target, distance,
                                       remaining_distance, step))
        IN  IF distance <= arrival_threshold
            THEN advance_loopCountsPastEnd(
                     target[1], target[2], next.index, remaining_distance, path,
                     arrival_threshold,
                     Append(moves, Move("snap", <<x, y>>, target, target, distance,
                                        remaining_distance, 0)))
            ELSE IF remaining_distance <= 0 THEN Advanced(<<x, y>>, index, moves)
            ELSE IF step < distance THEN Advanced(<<nx, ny>>, index, made)
            ELSE advance_loopCountsPastEnd(nx, ny, next.index, remaining_distance - step,
                                           path, arrival_threshold, made)

RECURSIVE advance_loop(_, _, _, _, _, _, _)
\* the `while True` loop of advance_along_path
advance_loop(x, y, index, remaining_distance, path, arrival_threshold, moves) ==
    LET next == get_next_waypoint_index(path, index)
    IN  IF next = None THEN Advanced(<<x, y>>, index, moves)
        ELSE
        LET target == PathAt(path, next.index)
            dx == target[1] - x
            dy == target[2] - y
            distance == Hypot(dx, dy)
            step == Min(remaining_distance, distance)
            \* ratio = step / distance; x += dx * ratio; y += dy * ratio
            nx == IF distance # 0 THEN x + (dx * step) \div distance ELSE x
            ny == IF distance # 0 THEN y + (dy * step) \div distance ELSE y
            made == Append(moves, Move("step", <<x, y>>, <<nx, ny>>, target, distance,
                                       remaining_distance, step))
        IN  IF distance <= arrival_threshold
            THEN advance_loop(target[1], target[2], next.index, remaining_distance,
                              path, arrival_threshold,
                              Append(moves, Move("snap", <<x, y>>, target, target, distance,
                                                 remaining_distance, 0)))
            ELSE IF remaining_distance <= 0 THEN Advanced(<<x, y>>, index, moves)
            ELSE IF step < distance THEN Advanced(<<nx, ny>>, index, made)
            ELSE advance_loop(nx, ny, next.index, remaining_distance - step, path,
                              arrival_threshold, made)

\* advance_along_path
advance_along_path(position, path, index, speed, dt, arrival_threshold) ==
    advance_loop(position[1], position[2], index, speed * dt, path,
                 arrival_threshold, <<>>)

\* =============================================================== BaseEnemy
\* what a constructor or call raised
Raised(error) == [raised |-> error]

\* BaseEnemy.__init__; the animation, which no other field depends on, is
\* left out
BaseEnemy(waypoints, speed, health, arrival_tolerance) ==
    IF waypoints = <<>> THEN Raised("ValueError")
    ELSE [waypoints |-> waypoints, waypoint_index |-> 0, position |-> waypoints[1],
          speed |-> speed, health |-> health, alive |-> TRUE,
          arrival_tolerance |-> arrival_tolerance, reached_goal |-> FALSE]

\* BaseEnemy.target_waypoint
target_waypoint(self) == PathAt(self.waypoints, self.waypoint_index)

\* Player(lives)
Player(lives) == IF lives <= 0 THEN Raised("ValueError") ELSE [lives |-> lives]

\* Player.lose_life
lose_life(self) == IF self.lives > 0 THEN [self EXCEPT !.lives = @ - 1] ELSE self

\* what BaseEnemy.update leaves: the enemy and the player it was given (None
\* if it was given none)
Moved(self, p) == [enemy |-> self, player |-> p]

\* BaseEnemy._on_goal_reached that leaves reached_goal as it is
on_goal_reachedUnmarked(self, p) ==
    Moved(self, IF p # None THEN lose_life(p) ELSE p)

\* BaseEnemy._on_goal_reached
on_goal_reached(self, p) ==
    Moved([self EXCEPT !.reached_goal = TRUE], IF p # None THEN lose_life(p) ELSE p)

RECURSIVE update_loopRunsOff(_, _, _)
\* the loop of BaseEnemy.update that advances the index without asking
\* whether a next waypoint exists
update_loopRunsOff(self, p, remaining_distance) ==
    IF ~(remaining_distance > 0 /\ ~self.reached_goal) THEN Moved(self, p)
    ELSE LET target == target_waypoint(self)
             diff_x == target[1] - self.position[1]
             diff_y == target[2] - self.position[2]
             distance_to_target == Sqrt(diff_x * diff_x + diff_y * diff_y)
             there == [self EXCEPT !.position = target]
         IN  IF distance_to_target <= remaining_distance
                \/ distance_to_target <= self.arrival_tolerance
             THEN IF self.waypoint_index + 1 >= Len(self.waypoints)
                  THEN Moved([there EXCEPT !.waypoint_index = @ + 1,
                                           !.reached_goal = TRUE], p)
                  ELSE update_loopRunsOff([there EXCEPT !.waypoint_index = @ + 1], p,
                                          remaining_distance)
             ELSE Moved([self EXCEPT !.position =
                            <<self.position[1]
                                  + (diff_x * remaining_distance) \div distance_to_target,
                              self.position[2]
                                  + (diff_y * remaining_distance) \div distance_to_target>>],
                        p)

RECURSIVE update_loop(_, _, _)
\* the `while remaining_distance > 0 and not self.reached_goal` loop of
\* BaseEnemy.update
update_loop(self, p, remaining_distance) ==
    IF ~(remaining_distance > 0 /\ ~self.reached_goal) THEN Moved(self, p)
    ELSE LET target == target_waypoint(self)
             diff_x == target[1] - self.position[1]
             diff_y == target[2] - self.position[2]
             distance_to_target == Sqrt(diff_x * diff_x + diff_y * diff_y)
             there == [self EXCEPT !.position = target]
         IN  IF distance_to_target <= self.arrival_tolerance
             THEN IF self.waypoint_index + 1 >= Len(self.waypoints)
                  THEN on_goal_reached(there, p)
                  ELSE update_loop([there EXCEPT !.waypoint_index = @ + 1], p,
                                   remaining_distance)
             ELSE IF distance_to_target <= remaining_distance
             THEN IF self.waypoint_index + 1 >= Len(self.waypoints)
                  THEN on_goal_reached(there, p)
                  ELSE update_loop([there EXCEPT !.waypoint_index = @ + 1], p,
                                   remaining_distance - distance_to_target)
             ELSE \* ratio = remaining_distance / distance_to_target
                  update_loop(
                      [self EXCEPT !.position =
                          <<self.position[1]
                                + (diff_x * remaining_distance) \div distance_to_target,
                            self.position[2]
                                + (diff_y * remaining_distance) \div distance_to_target>>],
                      p, 0)

\* BaseEnemy.update(dt, player=p)
BaseEnemy_update(self, dt, p) ==
    IF ~self.alive \/ self.reached_goal THEN Moved(self, p)
    ELSE update_loop(self, p, self.speed * dt)

\* ============================================================ BuildManager
\* the enemy path, in tiles
BLOCKED_TILES ==
    {<<5, 0>>, <<5, 1>>, <<5, 2>>, <<5, 3>>, <<5, 4>>, <<6, 4>>, <<7, 4>>, <<8, 4>>,
     <<9, 4>>, <<10, 4>>, <<11, 4>>, <<12, 4>>, <<12, 5>>, <<12, 6>>, <<12, 7>>,
     <<12, 8>>}

PREVIEW_OK_COLOR == <<80, 200, 120>>

PREVIEW_FORBIDDEN_COLOR == <<210, 80, 80>>

\* TowerButton(name, cost, ...): what the build manager reads of a button
TowerButton(name, cost) == [name |-> name, cost |-> cost]

BuildPreview(grid_position, pixel_position, color, can_build) ==
    [grid_position |-> grid_position, pixel_position |-> pixel_position,
     color |-> color, can_build |-> can_build]

\* a collection passed as the blocked_tiles argument (None if it is omitted)
Tiles(tiles) == [tiles |-> tiles]

\* BuildManager.__init__: set(blocked_tiles or BLOCKED_TILES)
BuildManager(tile_size, blocked_tiles) ==
    [tile_size |-> tile_size,
     blocked_tiles |-> IF blocked_tiles = None \/ blocked_tiles.tiles = {}
                       THEN BLOCKED_TILES ELSE blocked_tiles.tiles,
     selected_button |-> None,
     preview |-> None]

\* what a call on the build manager leaves: the manager, the caller's
\* occupied tiles, and what the call returned
Built(self, occupied, ret) == [m |-> self, occupied |-> occupied, ret |-> ret]

\* a Python bool returned by a call
Returned(b) == [bool |-> b]

\* BuildManager.begin_build that drops the selection when the money is short
begin_buildDropsSelection(self, button, money) ==
    IF money < button.cost
    THEN [m |-> [self EXCEPT !.selected_button = None, !.preview = None],
          ret |-> Returned(FALSE)]
    ELSE [m |-> [self EXCEPT !.selected_button = button, !.preview = None],
          ret |-> Returned(TRUE)]

\* BuildManager.begin_build
begin_build(self, button, money) ==
    IF money < button.cost THEN [m |-> self, ret |-> Returned(FALSE)]
    ELSE [m |-> [self EXCEPT !.selected_button = button, !.preview = None],
          ret |-> Returned(TRUE)]

\* BuildManager.cancel
cancel(self) == [self EXCEPT !.selected_button = None, !.preview = None]

\* BuildManager._snap_to_grid that takes the pixel position for the cell
snap_to_gridInPixels(self, position) == position

\* BuildManager._snap_to_grid
snap_to_grid(self, position) ==
    <<position[1] \div self.tile_size, position[2] \div self.tile_size>>

\* BuildManager._can_place
can_place(self, grid_position, occupied, money) ==
    IF self.selected_button = None THEN FALSE
    ELSE IF money < self.selected_button.cost THEN FALSE
    ELSE IF grid_position \in self.blocked_tiles THEN FALSE
    ELSE grid_position \notin occupied

\* BuildManager.update_preview
update_preview(self, mouse_position, occupied_tiles_, money) ==
    IF self.selected_button = None
    THEN [m |-> [self EXCEPT !.preview = None], ret |-> None]
    ELSE LET grid_position == snap_to_grid(self, mouse_position)
             can_place_ == can_place(self, grid_position, occupied_tiles_, money)
             color == IF can_place_ THEN PREVIEW_OK_COLOR ELSE PREVIEW_FORBIDDEN_COLOR
             pixel_position == <<grid_position[1] * self.tile_size,
                                 grid_position[2] * self.tile_size>>
             preview == BuildPreview(grid_position, pixel_position, color, can_place_)
         IN  [m |-> [self EXCEPT !.preview = preview], ret |-> preview]

\* BuildManager.confirm_build without its test of the money
confirm_buildWhateverTheMoney(self, occupied_tiles_, money) ==
    IF self.preview = None \/ self.selected_button = None
    THEN Built(self, occupied_tiles_, None)
    ELSE IF ~self.preview.can_build THEN Built(self, occupied_tiles_, None)
    ELSE Built(cancel(self), occupied_tiles_ \cup {self.preview.grid_position},
               self.selected_button)

\* BuildManager.confirm_build that keeps the preview and the selection
confirm_buildStaysSelecting(self, occupied_tiles_, money) ==
    IF self.preview = None \/ self.selected_button = None
    THEN Built(self, occupied_tiles_, None)
    ELSE IF ~self.preview.can_build THEN Built(self, occupied_tiles_, None)
    ELSE IF money < self.selected_button.cost THEN Built(self, occupied_tiles_, None)
    ELSE Built(self, occupied_tiles_ \cup {self.preview.grid_position},
               self.selected_button)

\* BuildManager.confirm_build
confirm_build(self, occupied_tiles_, money) ==
    IF self.preview = None \/ self.selected_button = None
    THEN Built(self, occupied_tiles_, None)
    ELSE IF ~self.preview.can_build THEN Built(self, occupied_tiles_, None)
    ELSE IF money < self.selected_button.cost THEN Built(self, occupied_tiles_, None)
    ELSE Built(cancel(self), occupied_tiles_ \cup {self.preview.grid_position},
               self.selected_button)

\* ------------------------------------------------------ the inputs
\* spawn-time lists of at most n spawns
TimeLists(n) == UNION {[1..k -> 0..MaxTime] : k \in 0..n}

\* a wave definition as passed to the constructor, in the caller's order
RawWave(times) == [i \in 1..Len(times) |-> EnemySpawn(i, times[i])]

RECURSIVE RawTables(_, _)
\* the wave tables of exactly w waves and at most n spawns
RawTables(w, n) ==
    IF w = 0 THEN {<<>>}
    ELSE UNION {{<<RawWave(times)>> \o rest : rest \in RawTables(w - 1, n - Len(times))}
                : times \in TimeLists(n)}

WaveTables == UNION {RawTables(w, MaxSpawns) : w \in 0..MaxWaves}

\* the dicts handed to load_progress: a snapshot of the manager whose index is
\* as saved or edited, to a value inside or just outside the wave table
ProgressData(w, m) ==
    {[serialize_progress(m) EXCEPT !.current_index = index] : index \in -2..Len(w)}

\* ---------------------------------------------------- bookkeeping
\* a Python bool as it prints, so that every call's result is a string
Bool(b) == IF b THEN "True" ELSE "False"

\* a call on the manager: its name, what it returned or raised, and one
\* argument: the index in the dict given to load_progress, the index the
\* manager stood at when start_next_wave was called, 0 for the other calls
Call(op, ret, arg) == [op |-> op, ret |-> ret, arg |-> arg]

Run(open, rets) == [open |-> open, rets |-> rets]

Keep(run, ret) == IF run.open /\ Len(run.rets) < MaxCalls
                  THEN Run(TRUE, Append(run.rets, ret)) ELSE run

\* one fired spawn: elapsed before and after the update that fired it, and
\* whether that update was the first one since the state was seeded
Fired(s, before, after, first) ==
    [enemy |-> s.enemy, time |-> s.time, before |-> before, after |-> after,
     first |-> first]

\* what the spawn callback receives: the enemy type alone
Enemies(fired) == [i \in 1..Len(fired) |-> fired[i].enemy]

Twin(m, ret, fired) == [m |-> m, ret |-> ret, spawned |-> fired]

Self == Manager(current_index, state)

Tracing == probe = "spawns"

\* ------------------------------------------------------------ Init
InitManager ==
    /\ raw_waves \in WaveTables
    /\ waves = SortedWaves(raw_waves)
    /\ loop_waves \in BOOLEAN
    /\ current_index = NewManager.current_index
    /\ state = NewManager.state
    /\ called = Call("__init__", "None", 0)
    /\ spawned = <<>>
    /\ timing = <<>>
    /\ wave_log = <<>>
    /\ seeded_by = "none"
    /\ updated = FALSE
    /\ start_run = Run(TRUE, <<>>)
    /\ idle_starts = Run(TRUE, <<>>)
    /\ twin = None

\* --------------------------------------------------------- actions
StartNextWave ==
    LET r == start_next_wave(waves, loop_waves, Self)
        t == IF twin = None THEN None ELSE start_next_wave(waves, loop_waves, twin.m)
        seeded == Tracing /\ r.ret
    IN  /\ current_index' = r.m.current_index
        /\ state' = r.m.state
        /\ called' = Call("start_next_wave", Bool(r.ret), current_index)
        /\ spawned' = <<>>
        /\ timing' = <<>>
        /\ wave_log' = IF seeded THEN <<>> ELSE wave_log
        /\ seeded_by' = IF seeded THEN "start_next_wave" ELSE seeded_by
        /\ updated' = IF seeded THEN FALSE ELSE updated
        /\ start_run' = IF Tracing THEN Keep(start_run, r.ret) ELSE start_run
        /\ idle_starts' = IF Tracing /\ state = None THEN Keep(idle_starts, r.ret)
                          ELSE idle_starts
        /\ twin' = IF twin = None THEN None ELSE Twin(t.m, Bool(t.ret), <<>>)
        /\ UNCHANGED <<raw_waves, waves, loop_waves, probe, beside_wave>>

Update ==
    \E delta_time \in 0..MaxDt :
        LET r == update(Self, delta_time)
            t == IF twin = None THEN None ELSE update(twin.m, delta_time)
            before == IF state = None THEN 0 ELSE state.elapsed
        IN  /\ current_index' = r.m.current_index
            /\ state' = r.m.state
            /\ called' = Call("update", "None", 0)
            /\ spawned' = Enemies(r.fired)
            /\ timing' = IF Tracing
                         THEN [i \in 1..Len(r.fired) |->
                                  Fired(r.fired[i], before, before + delta_time, ~updated)]
                         ELSE <<>>
            /\ wave_log' = IF Tracing THEN wave_log \o Enemies(r.fired) ELSE wave_log
            /\ updated' = IF Tracing THEN (updated \/ state # None) ELSE updated
            /\ start_run' = IF Tracing THEN Run(FALSE, start_run.rets) ELSE start_run
            /\ twin' = IF twin = None THEN None ELSE Twin(t.m, "None", Enemies(t.fired))
            /\ UNCHANGED <<raw_waves, waves, loop_waves, probe, seeded_by, idle_starts,
                           beside_wave>>

Reset ==
    LET m == reset(Self)
    IN  /\ current_index' = m.current_index
        /\ state' = m.state
        /\ called' = Call("reset", "None", 0)
        /\ spawned' = <<>>
        /\ timing' = <<>>
        /\ wave_log' = <<>>
        /\ seeded_by' = "none"
        /\ updated' = FALSE
        /\ start_run' = Run(TRUE, <<>>)
        /\ idle_starts' = Run(TRUE, <<>>)
        /\ twin' = IF twin = None THEN None ELSE Twin(reset(twin.m), "None", <<>>)
        /\ UNCHANGED <<raw_waves, waves, loop_waves, probe, beside_wave>>

LoadProgress ==
    \E data \in ProgressData(waves, Self) :
        LET r == load_progress(waves, Self, data)
            t == IF twin = None THEN None ELSE load_progress(waves, twin.m, data)
        IN  /\ current_index' = r.m.current_index
            /\ state' = r.m.state
            /\ called' = Call("load_progress", r.ret, data.current_index)
            /\ spawned' = <<>>
            /\ twin' = IF twin = None THEN None ELSE Twin(t.m, t.ret, <<>>)
            /\ UNCHANGED <<raw_waves, waves, loop_waves, probe, timing, wave_log,
                           seeded_by, updated, start_run, idle_starts, beside_wave>>

\* serialize_progress on the manager, load_progress of the snapshot on a fresh
\* manager built on the same wave table: from here on the twin gets every call
SaveAndRestore ==
    LET snapshot == serialize_progress(Self)
        r == load_progress(waves, NewManager, snapshot)
    IN  /\ twin' = Twin(r.m, r.ret, <<>>)
        /\ called' = Call("serialize_progress", "dict", 0)
        /\ spawned' = <<>>
        /\ UNCHANGED <<raw_waves, waves, loop_waves, current_index, state, probe,
                       timing, wave_log, seeded_by, updated, start_run, idle_starts,
                       beside_wave>>

\* ------------------------------------------------------- the tower
Grid == (0..MaxCoord) \X (0..MaxCoord)

\* the tower stands on the grid point <<1, 1>>
TowerPosition == <<1, 1>>

\* the candidate lists: up to MaxEnemies live enemies on grid points
Candidates ==
    UNION {[1..n -> {Target(p, TRUE) : p \in Grid}] : n \in 0..MaxEnemies}

\* no tower is looked at: the tower variables keep one value
NoTower ==
    /\ tower = BaseTower(TowerPosition, 1, 0)
    /\ enemies = <<>>
    /\ tower_called = "__init__"

\* no wave manager is looked at: the manager holds an empty table, untouched
NoManager ==
    /\ raw_waves = <<>>
    /\ waves = <<>>
    /\ loop_waves = FALSE
    /\ current_index = NewManager.current_index
    /\ state = NewManager.state
    /\ called = Call("__init__", "None", 0)
    /\ spawned = <<>>
    /\ probe = "none"
    /\ timing = <<>>
    /\ wave_log = <<>>
    /\ seeded_by = "none"
    /\ updated = FALSE
    /\ start_run = Run(TRUE, <<>>)
    /\ idle_starts = Run(TRUE, <<>>)
    /\ twin = None

\* self.target = self.select_target(enemies)
SelectTarget ==
    /\ tower' = [tower EXCEPT !.target = select_target(tower, enemies)]
    /\ tower_called' = "select_target"
    /\ UNCHANGED <<enemies, beside_tower>>

\* a candidate is killed (BaseEnemy.take_damage brings its health to 0)
EnemyKilled ==
    \E i \in 1..Len(enemies) :
        /\ enemies[i].alive
        /\ enemies' = [enemies EXCEPT ![i].alive = FALSE]
        /\ tower_called' = "take_damage"
        /\ UNCHANGED <<tower, beside_tower>>

\* ------------------------------------------------------- the combat
\* the lane the enemies walk and the projectiles fly along
Lane == {<<x, 0>> : x \in 0..MaxCoord}

\* the tower of the combat stands at the head of the lane
LanePosition == <<0, 0>>

\* the upgrade ladders of a tower that starts with `fire_rate`: every rung
\* raises one of range, fire rate and damage, and the fire rate stays within
\* MaxRate
Ladders(fire_rate) ==
    LET rungs == {TowerUpgrade(1, b, 0, 0) : b \in 1..MaxBonus}
                 \cup {TowerUpgrade(1, 0, b, 0) :
                          b \in 1..Min(MaxBonus, MaxRate - fire_rate)}
                 \cup {TowerUpgrade(1, 0, 0, b) : b \in 1..MaxBonus}
    IN  UNION {[1..n -> rungs] : n \in 0..MaxRungs}

\* the enemies of a combat: MaxFoes live enemies, created on the far end of
\* the lane
Foes == [1..MaxFoes -> {Enemy(<<MaxCoord, 0>>, h) : h \in 1..MaxHealth}]

\* the enemies a tower chooses among: MaxRivals live enemies anywhere on the
\* lane
Rivals == [1..MaxRivals -> {Enemy(p, h) : p \in Lane, h \in 1..MaxHealth}]

\* the last call: whether it fired a shot, the take_damage calls it made, the
\* projectiles that finished without one, and for a shot that had a shot
\* before it with no upgrade in between: the dt accumulated after the tick of
\* the earlier shot up to and including this tick (counted up to a second,
\* the longest cooldown) and the fire rate of the earlier shot (-1
\* otherwise); ret is what the call returned
Tick(op, fired, hits, misses, gap, against) ==
    [op |-> op, fired |-> fired, hits |-> hits, misses |-> misses, gap |-> gap,
     against |-> against, ret |-> None]

Idle(op) == Tick(op, FALSE, <<>>, <<>>, -1, -1)

\* a call that fires nothing and returns `ret`
Answered(op, ret) == [Idle(op) EXCEPT !.ret = ret]

\* elapsed: the dt accumulated since the tick of the last shot, counted up to
\* a second; rate: the fire rate that shot was fired with, -1 before the first
\* shot and once an upgrade was applied
Cadence(elapsed, rate) == [elapsed |-> elapsed, rate |-> rate]

NoCombat ==
    /\ projectile = None
    /\ tick = Idle("__init__")
    /\ cadence = Cadence(0, -1)

\* tower.update(dt, enemies)
TowerUpdate ==
    \E dt \in 0..MaxDt :
        \E r \in {BaseTower_update(tower, enemies, dt)} :
            /\ Len(r.tower.projectiles) <= MaxProjectiles
            /\ tower' = r.tower
            /\ enemies' = r.enemies
            /\ tower_called' = "update"
            /\ tick' = IF r.fired /\ cadence.rate # -1
                       THEN Tick("update", TRUE, r.hits, r.misses,
                                 Min(cadence.elapsed + dt, Second), cadence.rate)
                       ELSE Tick("update", r.fired, r.hits, r.misses, -1, -1)
            /\ cadence' = IF r.fired THEN Cadence(0, tower.fire_rate)
                          ELSE [cadence EXCEPT !.elapsed = Min(@ + dt, Second)]
            /\ UNCHANGED <<projectile, beside_combat>>

\* tower.apply_upgrade()
ApplyUpgrade ==
    LET r == apply_upgrade(tower)
    IN  /\ tower' = r.tower
        /\ tower_called' = "apply_upgrade"
        /\ tick' = Answered("apply_upgrade", Returned(r.ret))
        /\ cadence' = IF r.ret THEN [cadence EXCEPT !.rate = -1] ELSE cadence
        /\ UNCHANGED <<enemies, projectile, beside_combat>>

\* tower.can_upgrade()
CanUpgrade ==
    /\ tower_called' = "can_upgrade"
    /\ tick' = Answered("can_upgrade", Returned(can_upgrade(tower)))
    /\ UNCHANGED <<tower, enemies, projectile, cadence, beside_combat>>

\* tower.upgrade_cost()
UpgradeCost ==
    /\ tower_called' = "upgrade_cost"
    /\ tick' = Answered("upgrade_cost", upgrade_cost(tower))
    /\ UNCHANGED <<tower, enemies, projectile, cadence, beside_combat>>

\* no active set is kept: every enemy is passed to every update
NoRoster == active = {}

\* tower.update(dt, enemies) with the enemies of the active set
TowerUpdateActive ==
    \E dt \in 0..MaxDt :
        \E r \in {BaseTower_updateAmong(tower, enemies, active, dt)} :
            /\ Len(r.tower.projectiles) <= MaxProjectiles
            /\ tower' = r.tower
            /\ enemies' = r.enemies
            /\ tower_called' = "update"
            /\ tick' = Tick("update", r.fired, r.hits, r.misses, -1, -1)
            /\ UNCHANGED <<active, projectile, cadence, beside_roster>>

\* the cleanup pass: the caller takes a dead enemy out of the active set
DeadEnemyRemoved ==
    \E i \in active :
        /\ ~enemies[i].alive
        /\ active' = active \ {i}
        /\ tower_called' = "enemies.remove"
        /\ tick' = Idle("enemies.remove")
        /\ UNCHANGED <<tower, enemies, projectile, cadence, beside_roster>>

\* a live enemy of the active set stands on the last waypoint of its path,
\* whichever point of the lane that is, and the caller takes it out of the
\* active set: reaching the goal sets reached_goal and leaves alive as it is
EnemyLeaks ==
    \E i \in active :
        /\ enemies[i].alive
        /\ active' = active \ {i}
        /\ tower_called' = "enemies.remove"
        /\ tick' = Idle("enemies.remove")
        /\ UNCHANGED <<tower, enemies, projectile, cadence, beside_roster>>

\* a live enemy of the active set walks to another point of the lane
ActiveEnemyMoves ==
    \E i \in active, p \in Lane :
        /\ enemies[i].alive
        /\ p # enemies[i].position
        /\ enemies' = [enemies EXCEPT ![i].position = p]
        /\ tower_called' = "enemy.update"
        /\ tick' = Idle("enemy.update")
        /\ UNCHANGED <<active, tower, projectile, cadence, beside_roster>>

\* a live enemy walks to another point of the lane
EnemyMoves ==
    \E i \in 1..Len(enemies), p \in Lane :
        /\ enemies[i].alive
        /\ p # enemies[i].position
        /\ enemies' = [enemies EXCEPT ![i].position = p]
        /\ tower_called' = "enemy.update"
        /\ tick' = Idle("enemy.update")
        /\ UNCHANGED <<tower, projectile, cadence, beside_combat>>

\* --------------------------------------------- one projectile in flight
\* the last call in the flight of the projectile: its dt, the take_damage
\* calls it made, and the number of take_damage calls the projectile has
\* made in all (counted up to 2)
Flight(op, dt, hits, total) == [op |-> op, dt |-> dt, hits |-> hits, total |-> total]

\* projectile.update(dt), by a caller that keeps the projectile when finished
ProjectileUpdate ==
    \E dt \in 0..MaxDt :
        LET r == Projectile_update(projectile, enemies, dt)
        IN  /\ projectile' = r.projectile
            /\ enemies' = r.enemies
            /\ tick' = Flight("update", dt, r.hits, Min(tick.total + Len(r.hits), 2))
            /\ UNCHANGED <<tower, tower_called, cadence, beside_combat>>

\* the live target walks to another point of the lane
TargetMoves ==
    \E p \in Lane :
        /\ enemies[projectile.target].alive
        /\ p # enemies[projectile.target].position
        /\ enemies' = [enemies EXCEPT ![projectile.target].position = p]
        /\ tick' = Flight("enemy.update", 0, <<>>, tick.total)
        /\ UNCHANGED <<projectile, tower, tower_called, cadence, beside_combat>>

\* the live target is damaged from another source
TargetDamaged ==
    \E amount \in 1..MaxHealth :
        /\ enemies[projectile.target].alive
        /\ enemies' = [enemies EXCEPT ![projectile.target] = take_damage(@, amount)]
        /\ tick' = Flight("take_damage", 0, <<>>, tick.total)
        /\ UNCHANGED <<projectile, tower, tower_called, cadence, beside_combat>>

\* ------------------------------------------------ walking a path
\* two points on one line of the grid
Aligned(p, q) == p[1] = q[1] \/ p[2] = q[2]

RECURSIVE PathsOf(_)
\* the paths of n waypoints that start in the corner of the grid and whose
\* legs run along its lines
PathsOf(n) ==
    IF n = 0 THEN {<<>>}
    ELSE IF n = 1 THEN {<<<<0, 0>>>>}
    ELSE UNION {{Append(path, p) : p \in {q \in Grid : Aligned(path[n - 1], q)}}
                : path \in PathsOf(n - 1)}

Paths == UNION {PathsOf(n) : n \in 1..MaxPath}

Route(path, speed, arrival_threshold) ==
    [path |-> path, speed |-> speed, arrival_threshold |-> arrival_threshold]

Walker(position, index) == [position |-> position, index |-> index]

\* the last call: its dt, the position and index it was given, and the
\* changes of position it made
Walked(op, dt, from, moves) == [op |-> op, dt |-> dt, from |-> from, moves |-> moves]

NoPath ==
    /\ route = Route(<<>>, 0, 0)
    /\ walker = Walker(<<0, 0>>, 0)
    /\ walked = Walked("__init__", 0, walker, <<>>)

\* enemy_pos, waypoint_index = advance_along_path(enemy_pos, path_points,
\*                                                waypoint_index, speed, dt)
Advance ==
    \E dt \in 0..MaxDt :
        LET r == advance_along_path(walker.position, route.path, walker.index,
                                    route.speed, dt, route.arrival_threshold)
        IN  /\ walker' = Walker(r.position, r.index)
            /\ walked' = Walked("advance_along_path", dt, walker, r.moves)
            /\ UNCHANGED <<route, beside_path>>

\* ------------------------------------------------ an enemy on its path
\* a call on the enemy and what it returned or raised
EnemyCall(op, ret) == [op |-> op, ret |-> ret]

\* an update call, and whether it was given the player
UpdateCall(p) == [op |-> "update", ret |-> "None", player |-> p # None]

NoEnemy ==
    /\ base_enemy = Raised("ValueError")
    /\ player = None
    /\ enemy_called = EnemyCall("__init__", "ValueError")

\* the constructor returned an enemy
Constructed == base_enemy # Raised("ValueError")

\* enemy.update(dt), with the player or without one
EnemyUpdate ==
    \E dt \in 0..MaxDt, p \in {player, None} :
        LET r == BaseEnemy_update(base_enemy, dt, p)
        IN  /\ Constructed
            /\ base_enemy' = r.enemy
            /\ player' = IF p = None THEN player ELSE r.player
            /\ enemy_called' = UpdateCall(p)
            /\ UNCHANGED beside_enemy

\* enemy.take_damage(amount)
TakeDamage ==
    \E amount \in 1..MaxHealth :
        /\ Constructed
        /\ base_enemy' = take_damage(base_enemy, amount)
        /\ enemy_called' = EnemyCall("take_damage", "None")
        /\ UNCHANGED <<player, beside_enemy>>

\* one tick of an enemy and of an entity moved by advance_along_path beside
\* it, both given the same dt
EnemyAndFollowerMove ==
    \E dt \in 0..MaxDt :
        LET e == BaseEnemy_update(base_enemy, dt, player)
            r == advance_along_path(walker.position, route.path, walker.index,
                                    route.speed, dt, route.arrival_threshold)
        IN  /\ base_enemy' = e.enemy
            /\ player' = e.player
            /\ enemy_called' = UpdateCall(player)
            /\ walker' = Walker(r.position, r.index)
            /\ walked' = Walked("advance_along_path", dt, walker, r.moves)
            /\ UNCHANGED <<route, wave_vars, tower_vars, combat_vars, build_vars,
                           scaler_vars, stats_vars, roster_vars>>

\* ------------------------------------------------------ building
\* the mouse positions, in pixels
Mouse == (0..MaxMouse) \X (0..MaxMouse)

\* the grid cells a mouse position can fall in
Cells == (0..MaxMouse) \X (0..MaxMouse)

\* the buttons of the HUD
Buttons == {TowerButton("tower", cost) : cost \in 1..MaxMoney}

\* the blocked_tiles arguments: omitted, empty, or one cell
BlockedArgs == {None, Tiles({}), Tiles({<<0, 0>>})}

\* a call on the build manager: its name, the button, the money and the
\* mouse position it was given (None, 0 and the origin for a call that takes
\* none), and what it returned
BuildCall(op, button, money, mouse_position, ret) ==
    [op |-> op, button |-> button, money |-> money,
     mouse_position |-> mouse_position, ret |-> ret]

\* the constructor call: the tile_size and the blocked_tiles argument it was
\* given (None if omitted)
BuildInit(tile_size, blocked_tiles) ==
    [op |-> "__init__", button |-> None, money |-> 0, mouse_position |-> <<0, 0>>,
     ret |-> None, tile_size |-> tile_size, blocked_tiles |-> blocked_tiles]

NoBuild ==
    /\ builder = BuildManager(1, None)
    /\ occupied_tiles = {}
    /\ build_called = BuildCall("__init__", None, 0, <<0, 0>>, None)

\* build_manager.begin_build(button, money)
BeginBuild ==
    \E button \in Buttons, money \in 0..MaxMoney :
        LET r == begin_build(builder, button, money)
        IN  /\ builder' = r.m
            /\ build_called' = BuildCall("begin_build", button, money, <<0, 0>>, r.ret)
            /\ UNCHANGED <<occupied_tiles, beside_build>>

\* build_manager.cancel()
Cancel ==
    /\ builder' = cancel(builder)
    /\ build_called' = BuildCall("cancel", None, 0, <<0, 0>>, None)
    /\ UNCHANGED <<occupied_tiles, beside_build>>

\* build_manager.update_preview(mouse_position, occupied_tiles, money)
UpdatePreview ==
    \E mouse_position \in Mouse, money \in 0..MaxMoney :
        LET r == update_preview(builder, mouse_position, occupied_tiles, money)
        IN  /\ builder' = r.m
            /\ build_called' = BuildCall("update_preview", None, money, mouse_position,
                                           r.ret)
            /\ UNCHANGED <<occupied_tiles, beside_build>>

\* build_manager.confirm_build(occupied_tiles, money)
ConfirmBuild ==
    \E money \in 0..MaxMoney :
        LET r == confirm_build(builder, occupied_tiles, money)
        IN  /\ Cardinality(r.occupied) <= MaxOccupied
            /\ builder' = r.m
            /\ occupied_tiles' = r.occupied
            /\ build_called' = BuildCall("confirm_build", None, money, <<0, 0>>, r.ret)
            /\ UNCHANGED beside_build

\* the caller's set of occupied tiles changes between two calls: a cell is
\* taken or freed
OccupiedChanges ==
    \E cell \in Cells :
        /\ occupied_tiles' = IF cell \in occupied_tiles
                             THEN occupied_tiles \ {cell}
                             ELSE occupied_tiles \cup {cell}
        /\ Cardinality(occupied_tiles') <= MaxOccupied
        /\ build_called' = BuildCall("occupied_tiles", None, 0, <<0, 0>>, None)
        /\ UNCHANGED <<builder, beside_build>>

\* ====================================================== apply_difficulty
\* a float that is the fraction num/den
Rational(num, den) == [num |-> num, den |-> den]

\* a <= b, for fractions of positive denominators
Leq(a, b) == a.num * b.den <= b.num * a.den

RECURSIVE Pow(_, _)
Pow(b, e) == IF e = 0 THEN 1 ELSE b * Pow(b, e - 1)

\* a Python str (the value of an Optional[str] is this or None)
Str(s) == [str |-> s]

\* the truth value of an Optional[str]: None and "" are false
Truthy(special) == special # None /\ special # Str("")

\* WaveBlueprint(wave, enemy_type, count, base_health, base_speed, special)
WaveBlueprint(wave, enemy_type, count, base_health, base_speed, special) ==
    [wave |-> wave, enemy_type |-> enemy_type, count |-> count,
     base_health |-> base_health, base_speed |-> base_speed, special |-> special]

\* WaveConfig(wave, enemy_type, count, health, speed, special, difficulty_tags)
WaveConfig(wave, enemy_type, count, health, speed, special, difficulty_tags) ==
    [wave |-> wave, enemy_type |-> enemy_type, count |-> count, health |-> health,
     speed |-> speed, special |-> special, difficulty_tags |-> difficulty_tags]

\* DifficultyCurve(health_growth, speed_growth, count_growth,
\* special_frequency, extra_specials); the growths are fractions
DifficultyCurve(health_growth, speed_growth, count_growth, special_frequency, extra_specials) ==
    [health_growth |-> health_growth, speed_growth |-> speed_growth,
     count_growth |-> count_growth, special_frequency |-> special_frequency,
     extra_specials |-> extra_specials]

\* the default extra_specials (written without their accents)
DefaultSpecials == <<"elite", "acorazado", "etereo">>

\* DifficultyCurve(): growths 0.22, 0.05 and 0.08, a special every 3 waves
DefaultCurve ==
    DifficultyCurve(Rational(22, 100), Rational(5, 100), Rational(8, 100), 3,
                    DefaultSpecials)

\* (1 + growth) ** (wave_index - 1) that shrinks from wave to wave
MultiplierShrinks(growth, wave_index) ==
    LET e == wave_index - 1
    IN  IF e >= 0
        THEN Rational(Pow(growth.den, e), Pow(growth.den + growth.num, e))
        ELSE Rational(Pow(growth.den + growth.num, -e), Pow(growth.den, -e))

\* (1 + growth) ** (wave_index - 1)
Multiplier(growth, wave_index) ==
    LET e == wave_index - 1
    IN  IF e >= 0
        THEN Rational(Pow(growth.den + growth.num, e), Pow(growth.den, e))
        ELSE Rational(Pow(growth.den, -e), Pow(growth.den + growth.num, -e))

\* DifficultyCurve.health_multiplier, speed_multiplier, count_multiplier
health_multiplier(self, wave_index) == Multiplier(self.health_growth, wave_index)

speed_multiplier(self, wave_index) == Multiplier(self.speed_growth, wave_index)

count_multiplier(self, wave_index) == Multiplier(self.count_growth, wave_index)

\* DifficultyCurve.pick_special without the `- 1`
pick_specialSkipsFirst(self, wave_index) ==
    LET idx == wave_index \div self.special_frequency
    IN  self.extra_specials[(idx % Len(self.extra_specials)) + 1]

\* DifficultyCurve.pick_special (tuples count from 0 in Python)
pick_special(self, wave_index) ==
    LET idx == (wave_index \div self.special_frequency) - 1
    IN  self.extra_specials[(idx % Len(self.extra_specials)) + 1]

\* round(base * multiplier, 2): the nearest hundredth, the even one of two
\* that are equally near
Round2(base, multiplier) ==
    LET n == base * multiplier.num * 100
        q == n \div multiplier.den
        r == n % multiplier.den
    IN  Rational(IF 2 * r < multiplier.den THEN q
                 ELSE IF 2 * r > multiplier.den THEN q + 1
                 ELSE q + (q % 2),
                 100)

\* math.ceil(count * multiplier)
Ceil(count, multiplier) ==
    (count * multiplier.num + multiplier.den - 1) \div multiplier.den

\* int((multiplier - 1) * 100), for a multiplier of 1 or more
Percent(multiplier) == ((multiplier.num - multiplier.den) * 100) \div multiplier.den

\* the tags: f"+vida {percent}%", f"+velocidad {percent}%",
\* f"+cantidad {extra}" and f"especial {special}"
VidaTag(percent) == [tag |-> "+vida", percent |-> percent]

VelocidadTag(percent) == [tag |-> "+velocidad", percent |-> percent]

CantidadTag(extra) == [tag |-> "+cantidad", extra |-> extra]

EspecialTag(special) == [tag |-> "especial", special |-> special]

\* the condition of line 62 with the remainder left out
on_cadenceFromTheFirst(bp, c) ==
    ~Truthy(bp.special) /\ bp.wave >= c.special_frequency

\* not special and bp.wave >= curve.special_frequency
\* and bp.wave % curve.special_frequency == 0
on_cadence(bp, c) ==
    /\ ~Truthy(bp.special)
    /\ bp.wave >= c.special_frequency
    /\ bp.wave % c.special_frequency = 0

\* the body of the loop of apply_difficulty: the WaveConfig of one blueprint
scaled(bp, c) ==
    LET hm == health_multiplier(c, bp.wave)
        sm == speed_multiplier(c, bp.wave)
        cm == count_multiplier(c, bp.wave)
        scaled_health == Round2(bp.base_health, hm)
        scaled_speed == Round2(bp.base_speed, sm)
        scaled_count == Max(1, Ceil(bp.count, cm))
        tags == (IF hm.num > hm.den THEN <<VidaTag(Percent(hm))>> ELSE <<>>)
                \o (IF sm.num > sm.den THEN <<VelocidadTag(Percent(sm))>> ELSE <<>>)
                \o (IF scaled_count > bp.count
                    THEN <<CantidadTag(scaled_count - bp.count)>> ELSE <<>>)
        special == IF on_cadence(bp, c) THEN Str(pick_special(c, bp.wave))
                   ELSE bp.special
    IN  WaveConfig(bp.wave, bp.enemy_type, scaled_count, scaled_health,
                   scaled_speed, special,
                   IF on_cadence(bp, c) \/ Truthy(special)
                   THEN Append(tags, EspecialTag(special.str)) ELSE tags)

\* bp put behind the blueprints of `sorted_` whose wave is not larger
Insert(sorted_, bp) ==
    LET n == Cardinality({i \in 1..Len(sorted_) : sorted_[i].wave <= bp.wave})
    IN  SubSeq(sorted_, 1, n) \o <<bp>> \o SubSeq(sorted_, n + 1, Len(sorted_))

RECURSIVE sorted(_)
\* sorted(blueprints, key=lambda item: item.wave), a stable sort
sorted(bps) ==
    IF bps = <<>> THEN <<>>
    ELSE Insert(sorted(SubSeq(bps, 1, Len(bps) - 1)), bps[Len(bps)])

\* apply_difficulty(blueprints, curve)
apply_difficulty(bps, c) ==
    LET curve_ == IF c = None THEN DefaultCurve ELSE c
        in_order == sorted(bps)
    IN  [i \in 1..Len(bps) |-> scaled(in_order[i], curve_)]

\* ------------------------------------------------------ scaling
\* the growth rates: 0 and 1/k
Growths == {Rational(0, 1)} \cup {Rational(1, k) : k \in 1..MaxGrowth}

\* lists of up to MaxBlueprints blueprints
Lists(S) == UNION {[1..n -> S] : n \in 0..MaxBlueprints}

\* blueprints of one enemy type without a special, of every wave number,
\* count, base health and base speed
PlainBlueprints ==
    {WaveBlueprint(wave, "grunt", count, base_health, base_speed, None) :
        wave \in 1..MaxScaledWave, count \in 1..MaxCount,
        base_health \in 1..MaxBase, base_speed \in 1..MaxBase}

\* blueprints of one count, health and speed, of every wave number, with a
\* special, with an empty one and without
SpecialBlueprints ==
    {WaveBlueprint(wave, "grunt", 1, 1, 1, special) :
        wave \in 1..MaxCadenceWave, special \in {None, Str(""), Str("jefe")}}

\* the curves of every growth rate, with the default cadence
GrowthCurves ==
    {DifficultyCurve(h, s, c, 3, DefaultSpecials) : h \in Growths, s \in Growths,
                                                    c \in Growths}

\* the curves of every special_frequency and of one to MaxSpecials
\* extra_specials, with stats that stay or double
CadenceCurves ==
    {DifficultyCurve(Rational(g, 1), Rational(g, 1), Rational(g, 1), f,
                     SubSeq(DefaultSpecials, 1, n)) :
        g \in 0..1, f \in 1..MaxFrequency,
        n \in 1..Min(MaxSpecials, Len(DefaultSpecials))}

NoScaler ==
    /\ blueprints = <<>>
    /\ curve = None
    /\ configs = None

\* the list a call of apply_difficulty returned
Scaled(waves_) == [waves |-> waves_]

\* waves = apply_difficulty(blueprints, curve)
ApplyDifficulty ==
    /\ configs = None
    /\ configs' = Scaled(apply_difficulty(blueprints, curve))
    /\ UNCHANGED <<blueprints, curve, beside_scaler>>

\* ========================================================= PlayerStats
\* PlayerStats(money, lives, current_wave)
PlayerStats(money, lives, current_wave) ==
    [money |-> money, lives |-> lives, current_wave |-> current_wave]

\* what a call on the stats leaves: the stats and what the call returned
\* ("None", "True", "False") or raised ("ValueError")
Outcome(self, ret) == [stats |-> self, ret |-> ret]

\* PlayerStats.gain_money that takes a negative amount for 0
gain_moneyClamps(self, amount) ==
    Outcome([self EXCEPT !.money = @ + Max(0, amount)], "None")

\* PlayerStats.gain_money
gain_money(self, amount) ==
    IF amount < 0 THEN Outcome(self, "ValueError")
    ELSE Outcome([self EXCEPT !.money = @ + amount], "None")

\* PlayerStats.can_afford
can_afford(self, cost) == cost <= self.money

\* PlayerStats.spend_money
spend_money(self, cost) ==
    IF cost < 0 THEN Outcome(self, "ValueError")
    ELSE IF cost > self.money THEN Outcome(self, "False")
    ELSE Outcome([self EXCEPT !.money = @ - cost], "True")

\* PlayerStats.lose_life without the floor
PlayerStats_lose_lifeBelowZero(self, amount) ==
    IF amount < 0 THEN Outcome(self, "ValueError")
    ELSE Outcome([self EXCEPT !.lives = @ - amount], "None")

\* PlayerStats.lose_life
PlayerStats_lose_life(self, amount) ==
    IF amount < 0 THEN Outcome(self, "ValueError")
    ELSE Outcome([self EXCEPT !.lives = Max(0, @ - amount)], "None")

\* PlayerStats.is_alive
is_alive(self) == self.lives > 0

\* PlayerStats.register_enemy_kill
register_enemy_kill(self, reward) == gain_money(self, reward)

\* PlayerStats.register_purchase
register_purchase(self, cost) == spend_money(self, cost)

\* PlayerStats.start_wave
start_wave(self, wave_number) ==
    Outcome([self EXCEPT !.current_wave = wave_number], "None")

\* ------------------------------------------------------ the economy
\* a call on the stats: its name, its argument, the stats it found and its
\* outcome
StatsCall(op, amount, was, ret) ==
    [op |-> op, amount |-> amount, was |-> was, ret |-> ret]

\* the amounts, rewards and costs passed: negative ones too
Amounts == -1..MaxMoney

NoStats ==
    /\ stats = PlayerStats(0, 0, 0)
    /\ stats_called = StatsCall("__init__", 0, stats, "None")

\* the call `op` with `amount` has the outcome r; money is kept to MaxMoney
StatsStep(op, amount, r) ==
    /\ r.stats.money <= MaxMoney
    /\ stats' = r.stats
    /\ stats_called' = StatsCall(op, amount, stats, r.ret)
    /\ UNCHANGED beside_stats

\* stats.gain_money(amount)
GainMoney == \E amount \in Amounts : StatsStep("gain_money", amount, gain_money(stats, amount))

\* stats.spend_money(cost)
SpendMoney == \E cost \in Amounts : StatsStep("spend_money", cost, spend_money(stats, cost))

\* stats.lose_life(amount), amount being 1 if it is omitted
LoseLife ==
    \E amount \in -1..MaxLives :
        StatsStep("lose_life", amount, PlayerStats_lose_life(stats, amount))

\* stats.register_enemy_kill(reward)
RegisterEnemyKill ==
    \E reward \in Amounts :
        StatsStep("register_enemy_kill", reward, register_enemy_kill(stats, reward))

\* stats.register_purchase(cost)
RegisterPurchase ==
    \E cost \in Amounts :
        StatsStep("register_purchase", cost, register_purchase(stats, cost))

\* stats.start_wave(wave_number)
StartWave ==
    \E wave_number \in 0..MaxWaves :
        StatsStep("start_wave", wave_number, start_wave(stats, wave_number))

vars == <<wave_vars, tower_vars, combat_vars, path_vars, enemy_vars, build_vars,
          scaler_vars, stats_vars, roster_vars>>

\* the components a specification does not look at keep one value

InitWave ==
    InitManager /\ probe = "spawns" /\ NoTower /\ NoCombat /\ NoPath /\ NoEnemy /\ NoBuild
    /\ NoScaler /\ NoStats /\ NoRoster

InitProgress ==
    InitManager /\ probe = "progress" /\ NoTower /\ NoCombat /\ NoPath /\ NoEnemy /\ NoBuild
    /\ NoScaler /\ NoStats /\ NoRoster

InitTower ==
    /\ tower \in {BaseTower(TowerPosition, r, 0) : r \in 1..MaxRange}
    /\ enemies \in Candidates
    /\ tower_called = "__init__"
    /\ NoManager /\ NoCombat /\ NoPath /\ NoEnemy /\ NoBuild
    /\ NoScaler /\ NoStats /\ NoRoster

InitCombat ==
    /\ tower \in {NewTower(LanePosition, r, f, d, v, u) :
                      r \in 1..MaxRange, f \in 0..MaxRate, d \in 1..MaxDamage,
                      v \in 1..MaxSpeed, u \in UNION {Ladders(g) : g \in 0..MaxRate}}
    /\ tower.upgrades \in Ladders(tower.fire_rate)
    /\ enemies \in Foes
    /\ tower_called = "__init__"
    /\ projectile = None
    /\ tick = Idle("__init__")
    /\ cadence = Cadence(0, -1)
    /\ NoManager /\ NoPath /\ NoEnemy /\ NoBuild
    /\ NoScaler /\ NoStats /\ NoRoster

\* a tower without upgrades among MaxRivals enemies
InitRetention ==
    /\ tower \in {NewTower(LanePosition, r, f, 1, 1, <<>>) :
                      r \in 1..MaxRange, f \in 1..MaxRate}
    /\ enemies \in Rivals
    /\ tower_called = "__init__"
    /\ projectile = None
    /\ tick = Idle("__init__")
    /\ cadence = Cadence(0, -1)
    /\ NoManager /\ NoPath /\ NoEnemy /\ NoBuild
    /\ NoScaler /\ NoStats /\ NoRoster

\* a tower without upgrades among MaxRivals enemies, all in the active set
InitRoster ==
    /\ tower \in {NewTower(LanePosition, r, f, 1, 1, <<>>) :
                      r \in 1..MaxRange, f \in 1..MaxRate}
    /\ enemies \in Rivals
    /\ active = 1..MaxRivals
    /\ tower_called = "__init__"
    /\ projectile = None
    /\ tick = Idle("__init__")
    /\ cadence = Cadence(0, -1)
    /\ NoManager /\ NoPath /\ NoEnemy /\ NoBuild
    /\ NoScaler /\ NoStats

\* a projectile launched from a point of the lane at the one enemy there is
InitProjectile ==
    /\ enemies \in [1..1 -> {Enemy(p, h) : p \in Lane, h \in 1..MaxHealth}]
    /\ projectile \in {Projectile(p, 1, v, d) :
                          p \in Lane, v \in 1..MaxSpeed, d \in 1..MaxDamage}
    /\ tick = Flight("__init__", 0, <<>>, 0)
    /\ tower = BaseTower(TowerPosition, 1, 0)
    /\ tower_called = "__init__"
    /\ cadence = Cadence(0, -1)
    /\ NoManager /\ NoPath /\ NoEnemy /\ NoBuild
    /\ NoScaler /\ NoStats /\ NoRoster

\* an entity put on the first waypoint of its path
InitPath ==
    /\ route \in {Route(path, speed, arrival_threshold) :
                     path \in Paths, speed \in 1..MaxSpeed,
                     arrival_threshold \in 0..MaxThreshold}
    /\ walker = Walker(PathAt(route.path, 0), 0)
    /\ walked = Walked("__init__", 0, walker, <<>>)
    /\ NoManager /\ NoTower /\ NoCombat /\ NoEnemy /\ NoBuild
    /\ NoScaler /\ NoStats /\ NoRoster

\* BaseEnemy(waypoints, speed=, health=, arrival_tolerance=), for every path
\* and for no waypoints at all
InitEnemy ==
    /\ base_enemy \in {BaseEnemy(waypoints, speed, health, arrival_tolerance) :
                          waypoints \in Paths \cup {<<>>}, speed \in 1..MaxSpeed,
                          health \in 1..MaxHealth,
                          arrival_tolerance \in 0..MaxThreshold}
    /\ player \in {Player(lives) : lives \in 1..MaxLives}
    /\ enemy_called = EnemyCall("__init__",
                                IF Constructed THEN "None" ELSE "ValueError")
    /\ NoManager /\ NoTower /\ NoCombat /\ NoPath /\ NoBuild
    /\ NoScaler /\ NoStats /\ NoRoster

\* an enemy and an entity moved by advance_along_path, on the same path with
\* the same speed and the same tolerance, both on its first waypoint
InitFollow ==
    /\ route \in {Route(path, speed, arrival_threshold) :
                     path \in Paths, speed \in 1..MaxSpeed,
                     arrival_threshold \in 0..MaxThreshold}
    /\ walker = Walker(PathAt(route.path, 0), 0)
    /\ walked = Walked("__init__", 0, walker, <<>>)
    /\ base_enemy = BaseEnemy(route.path, route.speed, MaxHealth,
                              route.arrival_threshold)
    /\ player = Player(MaxLives)
    /\ enemy_called = EnemyCall("__init__", "None")
    /\ NoManager /\ NoTower /\ NoCombat /\ NoBuild
    /\ NoScaler /\ NoStats /\ NoRoster

\* BuildManager(tile_size, blocked_tiles), nothing built yet
InitBuild ==
    /\ \E tile_size \in 1..MaxTile, blocked_tiles \in BlockedArgs :
           /\ builder = BuildManager(tile_size, blocked_tiles)
           /\ build_called = BuildInit(tile_size, blocked_tiles)
    /\ occupied_tiles = {}
    /\ NoManager /\ NoTower /\ NoCombat /\ NoPath /\ NoEnemy
    /\ NoScaler /\ NoStats /\ NoRoster

\* two lists of plain blueprints under every curve of growths and under the
\* default curve, the curve argument omitted
InitScaling ==
    /\ blueprints \in Lists(PlainBlueprints)
    /\ curve \in GrowthCurves \cup {None}
    /\ configs = None
    /\ NoManager /\ NoTower /\ NoCombat /\ NoPath /\ NoEnemy /\ NoBuild /\ NoStats /\ NoRoster

\* blueprints with and without a special under every cadence
InitCadence ==
    /\ blueprints \in Lists(SpecialBlueprints)
    /\ curve \in CadenceCurves
    /\ configs = None
    /\ NoManager /\ NoTower /\ NoCombat /\ NoPath /\ NoEnemy /\ NoBuild /\ NoStats /\ NoRoster

\* PlayerStats(money, lives) with nothing owed
InitStats ==
    /\ stats \in {PlayerStats(money, lives, 0) : money \in 0..MaxMoney,
                                                 lives \in 0..MaxLives}
    /\ stats_called = StatsCall("__init__", 0, stats, "None")
    /\ NoManager /\ NoTower /\ NoCombat /\ NoPath /\ NoEnemy /\ NoBuild /\ NoScaler /\ NoRoster

\* the scheduler driven by the game loop: start_next_wave, update, reset
NextWave == StartNextWave \/ Update \/ Reset

SpecWave == InitWave /\ [][NextWave]_vars

\* the scheduler with its progress snapshots saved and loaded as well
NextProgress == StartNextWave \/ Update \/ Reset \/ LoadProgress \/ SaveAndRestore

SpecProgress == InitProgress /\ [][NextProgress]_vars

\* a tower choosing among candidates that die one after the other
NextTower == SelectTarget \/ EnemyKilled

SpecTower == InitTower /\ [][NextTower]_vars

\* a tower fighting the enemies that walk the lane
NextCombat ==
    TowerUpdate \/ ApplyUpgrade \/ CanUpgrade \/ UpgradeCost \/ EnemyMoves

SpecCombat == InitCombat /\ [][NextCombat]_vars

\* a tower without upgrades among several enemies that walk the lane
NextRetention == TowerUpdate \/ EnemyMoves

SpecRetention == InitRetention /\ [][NextRetention]_vars

\* a tower among enemies that the caller takes out of the active set when
\* they die or reach the goal
NextRoster == TowerUpdateActive \/ DeadEnemyRemoved \/ EnemyLeaks \/ ActiveEnemyMoves

SpecRoster == InitRoster /\ [][NextRoster]_vars

\* a projectile chasing a target that walks and is damaged by others too
NextProjectile == ProjectileUpdate \/ TargetMoves \/ TargetDamaged

SpecProjectile == InitProjectile /\ [][NextProjectile]_vars

\* an entity moved along its path tick after tick
NextPath == Advance

SpecPath == InitPath /\ [][NextPath]_vars

\* an enemy updated tick after tick and damaged on its way
NextEnemy == EnemyUpdate \/ TakeDamage

SpecEnemy == InitEnemy /\ [][NextEnemy]_vars

\* an enemy and a follower of the same path, ticked together
NextFollow == EnemyAndFollowerMove

SpecFollow == InitFollow /\ [][NextFollow]_vars

\* a player placing towers: selecting, previewing, confirming, cancelling
NextBuild == BeginBuild \/ Cancel \/ UpdatePreview \/ ConfirmBuild \/ OccupiedChanges

SpecBuild == InitBuild /\ [][NextBuild]_vars

\* the scaler applied once to a list of blueprints
NextScaler == ApplyDifficulty

SpecScaling == InitScaling /\ [][NextScaler]_vars

SpecCadence == InitCadence /\ [][NextScaler]_vars

\* the economy of a game: rewards, purchases, leaks and waves
NextStats ==
    \/ GainMoney
    \/ SpendMoney
    \/ LoseLife
    \/ RegisterEnemyKill
    \/ RegisterPurchase
    \/ StartWave

SpecStats == InitStats /\ [][NextStats]_vars

\* ================================================================ claims
\* the wave the manager stands at, as it was passed to the constructor
RawWaveAt(index) == WaveAt(raw_waves, index)

\* q lists the enemies of `wave` once each, by ascending spawn_time, equal
\* times in the order of the wave definition (an enemy's label is its position)
InSpawnOrder(q, wave) ==
    /\ Len(q) = Len(wave)
    /\ {q[i] : i \in 1..Len(q)} = 1..Len(wave)
    /\ \A i, j \in 1..Len(q) :
          i < j => \/ wave[q[i]].time < wave[q[j]].time
                   \/ wave[q[i]].time = wave[q[j]].time /\ q[i] < q[j]

\* the enemies still queued
Queued == IF state = None THEN <<>> ELSE Enemies(state.spawns)

\* C1: in a wave begun by start_next_wave, the enemies spawned so far followed
\* by the enemies still queued are the wave's spawns once each, in ascending
\* spawn_time order with equal times in their original order; a spawn is fired
\* by an update that brings elapsed to its spawn_time or beyond, and is the
\* first such update (elapsed was below the spawn_time before it, or it is the
\* first update of the wave); after an update no queued spawn is due.
C1_SpawnsFireOnceInOrderWhenDue ==
    seeded_by = "start_next_wave" =>
        /\ InSpawnOrder(wave_log \o Queued, RawWaveAt(current_index))
        /\ Len(timing) = Len(spawned)
        /\ \A i \in 1..Len(timing) :
              /\ timing[i].enemy = spawned[i]
              /\ timing[i].time = RawWaveAt(current_index)[spawned[i]].time
              /\ timing[i].time <= timing[i].after
              /\ timing[i].first \/ timing[i].before < timing[i].time
        /\ (updated /\ state # None) =>
              \A i \in 1..Len(state.spawns) : state.spawns[i].time > state.elapsed

\* a wave given as <<late, early>> has been fired early-first over two updates
C1_Witness ==
    /\ seeded_by = "start_next_wave"
    /\ state = None
    /\ wave_log = <<2, 1>>
    /\ Len(spawned) = 1
    /\ called.op = "update"

\* C2: start_next_wave returns FALSE and leaves index and runtime state alone
\* when a wave is active, or when no further wave exists and looping is off or
\* the table is empty; otherwise it returns TRUE, moves the index to the next
\* wave (wave 0 after the last one when looping), seeds the state with all
\* spawns of that wave in time order and elapsed 0, and spawns nothing.
C2_StartNextWave ==
    [][called'.op = "start_next_wave" =>
        LET next_index == current_index + 1
            exhausted == next_index >= Len(waves)
            refused == \/ state # None
                       \/ exhausted /\ (~loop_waves \/ Len(waves) = 0)
        IN  IF refused
            THEN /\ called'.ret = "False"
                 /\ UNCHANGED <<current_index, state>>
                 /\ spawned' = <<>>
            ELSE /\ called'.ret = "True"
                 /\ current_index' = IF exhausted THEN 0 ELSE next_index
                 /\ state' # None
                 /\ state'.elapsed = 0
                 /\ InSpawnOrder(Enemies(state'.spawns), RawWaveAt(current_index'))
                 /\ \A i \in 1..Len(state'.spawns) :
                       state'.spawns[i] = RawWaveAt(current_index')[state'.spawns[i].enemy]
                 /\ spawned' = <<>>
    ]_wave_vars

\* the second wave has just been started; its spawn of time 0 is still queued
C2_Witness ==
    /\ called.op = "start_next_wave"
    /\ called.ret = "True"
    /\ current_index = 1
    /\ state # None
    /\ state.elapsed = 0
    /\ state.spawns # <<>>
    /\ Head(state.spawns).time = 0
    /\ spawned = <<>>

\* spawns of the wave begun by start_next_wave that have not been fired
Unfired ==
    IF seeded_by = "start_next_wave"
    THEN Len(RawWaveAt(current_index)) - Len(wave_log)
    ELSE 0

\* C3: after every update call, a wave is in progress exactly if a spawn of
\* the active wave is still unfired: the update that fires the last spawn
\* also ends the wave.
C3_UpdateEndsWave ==
    called.op = "update" => (wave_in_progress(Self) <=> Unfired > 0)

\* an update has fired the last spawn and the manager is idle at once
C3_Witness ==
    /\ called.op = "update"
    /\ seeded_by = "start_next_wave"
    /\ spawned # <<>>
    /\ Unfired = 0
    /\ ~wave_in_progress(Self)

\* p is a prefix of q
IsPrefix(p, q) == Len(p) <= Len(q) /\ p = SubSeq(q, 1, Len(p))

\* C4 as stated: on an idle, non-looping manager with 2 waves, three
\* start_next_wave calls with no other call between them return TRUE, TRUE, FALSE.
C4_ThreeCallsTrueTrueFalse ==
    (~loop_waves /\ Len(waves) = 2 /\ Len(start_run.rets) = 3)
        => start_run.rets = <<TRUE, TRUE, FALSE>>

\* C4, amended: on an idle, non-looping manager with 2 waves, start_next_wave
\* calls made back to back return TRUE, FALSE, FALSE (the first wave is still
\* active), and the calls made while no wave is active, each started wave
\* having been run to its end by update, return TRUE, TRUE, then FALSE.
C4_StartsOfTwoWaves ==
    (~loop_waves /\ Len(waves) = 2) =>
        /\ IsPrefix(start_run.rets, <<TRUE, FALSE, FALSE, FALSE>>)
        /\ IsPrefix(idle_starts.rets, <<TRUE, TRUE, FALSE, FALSE>>)

\* both waves were played and a third start_next_wave was refused
C4_Witness ==
    /\ ~loop_waves
    /\ Len(waves) = 2
    /\ idle_starts.rets = <<TRUE, TRUE, FALSE>>
    /\ called.op = "start_next_wave"

Finished == is_finished(waves, loop_waves, Self)

C6_LoopingRestarts ==
    /\ [](loop_waves => (~Finished /\ waves = SortedWaves(raw_waves)))
    /\ [][(/\ loop_waves
           /\ Len(waves) >= 1
           /\ state = None
           /\ current_index = Len(waves) - 1
           /\ called'.op = "start_next_wave") =>
            /\ called'.ret = "True"
            /\ current_index' = 0
            /\ state' = WaveState(WaveAt(waves, 0), 0)
            /\ InSpawnOrder(Enemies(state'.spawns), RawWaveAt(0))]_wave_vars

\* after both waves were played the third start began wave 0 with its spawns
C6_Witness ==
    /\ loop_waves
    /\ Len(waves) = 2
    /\ idle_starts.rets = <<TRUE, TRUE, TRUE>>
    /\ called.op = "start_next_wave"
    /\ called.ret = "True"
    /\ called.arg = 1
    /\ current_index = 0
    /\ state # None
    /\ state.spawns # <<>>

\* C7: loading the snapshot of any reachable manager into a fresh manager on
\* the same wave table succeeds and gives the same index, the same runtime
\* state (active or not, queue, elapsed); and a manager restored that way, given
\* the same calls, returns the same values, spawns the same enemies in the same
\* order and stays in the same state as the one that was never saved.
C7_SaveRestoreRoundTrip ==
    /\ load_progress(waves, NewManager, serialize_progress(Self))
          = [m |-> Self, ret |-> "ok"]
    /\ twin # None =>
          /\ twin.m = Self
          /\ twin.spawned = spawned
          /\ called.op # "serialize_progress" => twin.ret = called.ret

\* a manager restored in the middle of a wave fired the same spawn afterwards
C7_Witness ==
    /\ twin # None
    /\ called.op = "update"
    /\ spawned # <<>>
    /\ twin.spawned = spawned
    /\ state # None
    /\ state.elapsed > 0

\* C8: load_progress with an index below -1 or at least the number of waves
\* raises and leaves index and runtime state as they were; with any index from
\* -1 to the number of waves - 1 it succeeds and takes that index.
C8_LoadProgressIndexRange ==
    [][called'.op = "load_progress" =>
        IF called'.arg < -1 \/ called'.arg >= Len(waves)
        THEN called'.ret = "ValueError" /\ UNCHANGED <<current_index, state>>
        ELSE called'.ret = "ok" /\ current_index' = called'.arg]_wave_vars

\* a load with the index one past the table failed while a wave was active
C8_Witness ==
    /\ called.op = "load_progress"
    /\ called.ret = "ValueError"
    /\ called.arg = Len(waves)
    /\ state # None
    /\ current_index = 0

\* C9: with looping off remaining_waves() is the number of waves minus the
\* index while a wave is active and minus index + 1 when idle, and never
\* negative; with looping on it is infinite.
C9_RemainingWaves ==
    LET r == remaining_waves(waves, loop_waves, Self)
    IN  IF loop_waves THEN r.inf
        ELSE /\ ~r.inf
             /\ r.n >= 0
             /\ r.n = IF wave_in_progress(Self)
                      THEN Len(waves) - current_index
                      ELSE Len(waves) - (current_index + 1)

\* the second of two waves is running: one wave remains, the running one
C9_Witness ==
    /\ ~loop_waves
    /\ Len(waves) = 2
    /\ current_index = 1
    /\ wave_in_progress(Self)
    /\ remaining_waves(waves, loop_waves, Self) = [inf |-> FALSE, n |-> 1]

\* candidate i is alive and within the tower's range (inclusive)
Qualifies(i) ==
    /\ enemies[i].alive
    /\ distance_to(tower, enemies[i]) <= tower.range * tower.range

\* C10: select_target returns None exactly if no candidate is alive and within
\* range (inclusive); otherwise it returns such a candidate, none of them is
\* nearer, and of those equally near it is the first in iteration order.
\* Enemies at distances 5 and 8: range 10 gives the one at 5, range 4 none.
C10_SelectTarget ==
    /\ tower_called = "select_target" =>
          /\ tower.target \in 0..Len(enemies)
          /\ tower.target = 0 <=> ~\E i \in 1..Len(enemies) : Qualifies(i)
          /\ tower.target # 0 =>
                /\ Qualifies(tower.target)
                /\ \A j \in 1..Len(enemies) :
                      Qualifies(j) =>
                         LET dt == distance_to(tower, enemies[tower.target])
                             dj == distance_to(tower, enemies[j])
                         IN  dt < dj \/ (dt = dj /\ tower.target <= j)
    /\ LET five == Target(<<3, 4>>, TRUE)
           eight == Target(<<8, 0>>, TRUE)
       IN  /\ select_target(BaseTower(<<0, 0>>, 10, 0), <<five, eight>>) = 1
           /\ select_target(BaseTower(<<0, 0>>, 10, 0), <<eight, five>>) = 2
           /\ select_target(BaseTower(<<0, 0>>, 4, 0), <<five, eight>>) = 0

\* two live candidates equally far and in range: the first one was returned
C10_Witness ==
    /\ tower_called = "select_target"
    /\ Len(enemies) = 2
    /\ enemies[1].position # enemies[2].position
    /\ distance_to(tower, enemies[1]) = distance_to(tower, enemies[2])
    /\ Qualifies(1)
    /\ Qualifies(2)
    /\ tower.target = 1

\* C11: cooldown is never negative, and between one shot of a tower and its
\* next one (no upgrade applied in between, the earlier shot fired with a
\* fire rate above 0) the dt accumulated after the tick of the earlier shot,
\* up to and including the tick of the later one, is at least 1/fire_rate.
C11_CooldownSpacesShots ==
    /\ tower.cooldown >= 0
    /\ (tick.fired /\ tick.against > 0) => tick.gap >= Period(tick.against)

\* a tower of fire rate 1 has fired a second shot just one cooldown after the
\* tick of its first, and a shot before the cooldown ran out was not possible:
\* the cooldown it runs now is the same
C11_Witness ==
    /\ tower_called = "update"
    /\ tick.fired
    /\ tick.against = 1
    /\ tick.gap = Period(1)
    /\ Period(1) > 1
    /\ tower.cooldown = Period(1)

\* C13: take_damage is only ever called on a live target; a projectile whose
\* target is dead when its update runs finishes where it is, without a
\* take_damage call, also when the target died earlier in the same pass; the
\* health of a dead enemy never changes again.
C13_NoDamageToTheDead ==
    /\ [](/\ \A i \in 1..Len(tick.hits) : tick.hits[i].alive
          /\ \A i \in 1..Len(tick.misses) :
                /\ ~enemies[tick.misses[i].before.target].alive
                /\ tick.misses[i].after =
                       [tick.misses[i].before EXCEPT !.finished = TRUE])
    /\ [][/\ \A i \in 1..Len(enemies) :
                ~enemies[i].alive => enemies'[i] = enemies[i]
          /\ tick'.op = "update" =>
                \A i \in 1..Len(tower.projectiles) :
                    ~enemies[tower.projectiles[i].target].alive =>
                        \E j \in 1..Len(tick'.misses) :
                            tick'.misses[j].before = tower.projectiles[i]
         ]_<<tower_vars, combat_vars>>

\* two projectiles reached the same enemy in one pass: the first one killed
\* it, the second one found it dead and did no damage
C13_Witness ==
    /\ tower_called = "update"
    /\ Len(tick.hits) = 1
    /\ Len(tick.misses) = 1
    /\ tick.misses[1].before.target = tick.hits[1].target
    /\ tick.misses[1].before.position # enemies[tick.hits[1].target].position
    /\ ~enemies[tick.hits[1].target].alive
    /\ enemies[tick.hits[1].target].health = 0

\* the distance between two points of the lane
Apart(p, q) == Sqrt((p[1] - q[1]) * (p[1] - q[1]) + (p[2] - q[2]) * (p[2] - q[2]))

\* the step is an update of the projectile, unfinished, whose target is alive
HomingStep ==
    /\ tick'.op = "update"
    /\ ~projectile.finished
    /\ enemies[projectile.target].alive

\* C12: an update of an unfinished projectile with a live target measures the
\* distance to where the target is now.  If speed*dt reaches it, the
\* projectile is put on the target, calls take_damage once with its damage and
\* is finished; if not, it stays unfinished, damages nothing, and moves speed*dt
\* along the segment from where it was to where the target is.
C12_ProjectileHomes ==
    [][HomingStep =>
          LET target == enemies[projectile.target]
              distance == Apart(projectile.position, target.position)
              travel_distance == projectile.speed * tick'.dt
          IN  IF travel_distance >= distance
              THEN /\ projectile' = [projectile EXCEPT !.position = target.position,
                                                       !.finished = TRUE]
                   /\ tick'.hits = <<Hit(projectile.target, TRUE, projectile.damage)>>
                   /\ enemies' = [enemies EXCEPT ![projectile.target] =
                                      take_damage(target, projectile.damage)]
              ELSE /\ projectile' = [projectile EXCEPT !.position = projectile'.position]
                   /\ Apart(projectile'.position, projectile.position) = travel_distance
                   /\ Apart(projectile'.position, target.position)
                          = distance - travel_distance
                   /\ tick'.hits = <<>>
                   /\ enemies' = enemies
      ]_<<tower_vars, combat_vars>>

\* a projectile of speed 1 has moved for one tick and is not yet there: its
\* target, alive, stands one unit further
C12_Witness ==
    /\ tick.op = "update"
    /\ tick.dt = 1
    /\ projectile.speed = 1
    /\ ~projectile.finished
    /\ enemies[projectile.target].alive
    /\ Apart(projectile.position, enemies[projectile.target].position) = 1
    /\ tick.hits = <<>>

\* C14: a finished projectile stays finished, an update of it changes neither
\* the projectile nor any enemy and calls no take_damage, and over its whole
\* flight a projectile calls take_damage at most once.
C14_FinishedIsPermanent ==
    /\ [](tick.total <= 1)
    /\ [][projectile.finished =>
             /\ projectile'.finished
             /\ tick'.op = "update" =>
                   /\ projectile' = projectile
                   /\ enemies' = enemies
                   /\ tick'.hits = <<>>
         ]_<<tower_vars, combat_vars>>

\* the projectile has hit its target, which survived and walked on; updated
\* again for a tick that would take it there, it did nothing
C14_Witness ==
    /\ tick.op = "update"
    /\ tick.dt >= 1
    /\ tick.hits = <<>>
    /\ tick.total = 1
    /\ projectile.finished
    /\ enemies[projectile.target].alive
    /\ projectile.position # enemies[projectile.target].position

RECURSIVE StepsBefore(_, _)
\* the budget spent by the first n changes of position: the sum of their steps
StepsBefore(moves, n) == IF n = 0 THEN 0 ELSE StepsBefore(moves, n - 1) + moves[n].step

\* C15: in one advance_along_path call the changes of position lead from the
\* position given to the position returned; a step is the smaller of the
\* budget left and the distance to the next waypoint, and is made towards
\* that waypoint, ending on the segment to it; the steps add up to at most
\* speed*dt; everything else is an arrival snap, onto a waypoint at most
\* arrival_threshold away, which costs no budget.
C15_NeverOvershoots ==
    walked.op = "advance_along_path" =>
        LET moves == walked.moves
            n == Len(moves)
            budget == route.speed * walked.dt
        IN  /\ walker.position = IF n = 0 THEN walked.from.position ELSE moves[n].to
            /\ n > 0 => moves[1].from = walked.from.position
            /\ \A i \in 1..(n - 1) : moves[i + 1].from = moves[i].to
            /\ \A i \in 1..n :
                  /\ moves[i].distance = Apart(moves[i].from, moves[i].target)
                  /\ moves[i].remaining_distance = budget - StepsBefore(moves, i - 1)
                  /\ moves[i].kind \in {"snap", "step"}
                  /\ moves[i].kind = "step" =>
                        /\ moves[i].step
                               = Min(moves[i].remaining_distance, moves[i].distance)
                        /\ Apart(moves[i].from, moves[i].to) = moves[i].step
                        /\ Apart(moves[i].to, moves[i].target)
                               = moves[i].distance - moves[i].step
                  /\ moves[i].kind = "snap" =>
                        /\ moves[i].step = 0
                        /\ moves[i].to = moves[i].target
                        /\ moves[i].distance <= route.arrival_threshold
            /\ StepsBefore(moves, n) <= budget

\* one call snapped onto a waypoint one unit away and then spent its whole
\* budget on a step that stopped short of the next waypoint
C15_Witness ==
    /\ walked.op = "advance_along_path"
    /\ Len(walked.moves) = 2
    /\ walked.moves[1].kind = "snap"
    /\ walked.moves[1].distance = 1
    /\ walked.moves[2].kind = "step"
    /\ walked.moves[2].step = route.speed * walked.dt
    /\ walked.moves[2].step < walked.moves[2].distance

RECURSIVE LegsFrom(_, _)
\* the length of the path from waypoint `index` to the last waypoint
LegsFrom(path, index) ==
    IF index + 1 >= Len(path) THEN 0
    ELSE Apart(PathAt(path, index), PathAt(path, index + 1)) + LegsFrom(path, index + 1)

\* the length of the path left to an entity at `position` that has reached
\* waypoint `index`
RemainingLength(position, path, index) ==
    IF index + 1 >= Len(path) THEN 0
    ELSE Apart(position, PathAt(path, index + 1)) + LegsFrom(path, index + 1)

\* C16: a call whose budget speed*dt is at least the length of the path left
\* returns the last waypoint and the index len(path)-1.  On the two-waypoint
\* path of length 3, budgets 3 and 4 end on the second waypoint with index 1.
C16_ReachesTheEnd ==
    /\ walked.op = "advance_along_path" =>
          (route.speed * walked.dt
               >= RemainingLength(walked.from.position, route.path, walked.from.index)
           => walker = Walker(PathAt(route.path, Len(route.path) - 1),
                              Len(route.path) - 1))
    /\ \A budget \in 3..4, arrival_threshold \in 0..MaxThreshold :
          LET r == advance_along_path(<<0, 0>>, <<<<0, 0>>, <<3, 0>>>>, 0, 1, budget,
                                      arrival_threshold)
          IN  r.position = <<3, 0>> /\ r.index = 1

\* a call with a budget of just the length of a path of three waypoints, no
\* leg of it short enough for a snap, took the entity from the first to the
\* last of them
C16_Witness ==
    /\ walked.op = "advance_along_path"
    /\ Len(route.path) = 3
    /\ walked.from = Walker(PathAt(route.path, 0), 0)
    /\ route.speed * walked.dt = LegsFrom(route.path, 0)
    /\ Len(walked.moves) = 2
    /\ walked.moves[1].kind = "step"
    /\ walked.moves[2].kind = "step"
    /\ walker = Walker(PathAt(route.path, 2), 2)

\* C17: an enemy that was constructed has 0 <= waypoint_index < len(waypoints)
\* after every update and take_damage call, so that target_waypoint is one of
\* its waypoints; the constructor raises ValueError when given no waypoints.
C17_WaypointIndexInRange ==
    /\ Constructed =>
          /\ Len(base_enemy.waypoints) >= 1
          /\ 0 <= base_enemy.waypoint_index
          /\ base_enemy.waypoint_index < Len(base_enemy.waypoints)
          /\ \E i \in 1..Len(base_enemy.waypoints) :
                target_waypoint(base_enemy) = base_enemy.waypoints[i]
    /\ ~Constructed => enemy_called = EnemyCall("__init__", "ValueError")
    /\ \A speed \in 1..MaxSpeed, health \in 1..MaxHealth,
          arrival_tolerance \in 0..MaxThreshold :
          /\ BaseEnemy(<<>>, speed, health, arrival_tolerance) = Raised("ValueError")
          /\ \A waypoints \in Paths :
                BaseEnemy(waypoints, speed, health, arrival_tolerance)
                    # Raised("ValueError")

\* an enemy has walked a path of three waypoints to its end: the index stands
\* on the last waypoint, and so does the enemy
C17_Witness ==
    /\ Constructed
    /\ enemy_called.op = "update"
    /\ Len(base_enemy.waypoints) = 3
    /\ base_enemy.waypoint_index = 2
    /\ base_enemy.reached_goal
    /\ base_enemy.position = base_enemy.waypoints[3]
    /\ base_enemy.position # base_enemy.waypoints[1]

\* the build manager is Idle: nothing selected, no preview
BuilderIdle(m) == m.selected_button = None /\ m.preview = None

\* the step is a confirm_build call
Confirming == build_called'.op = "confirm_build"

\* C18: confirm_build returns the selected button exactly if a preview
\* exists, its can_build flag is true and the money passed is at least the
\* button's cost; it then adds the preview's cell to occupied_tiles and leaves
\* the manager Idle.  Otherwise it returns None and changes neither
\* occupied_tiles nor the selection nor the preview.  (A preview never exists
\* without a selection.)
C18_ConfirmBuild ==
    /\ [](builder.preview # None => builder.selected_button # None)
    /\ [][Confirming =>
             IF /\ builder.preview # None
                /\ builder.preview.can_build
                /\ build_called'.money >= builder.selected_button.cost
             THEN /\ build_called'.ret = builder.selected_button
                  /\ occupied_tiles'
                         = occupied_tiles \cup {builder.preview.grid_position}
                  /\ BuilderIdle(builder')
             ELSE /\ build_called'.ret = None
                  /\ occupied_tiles' = occupied_tiles
                  /\ builder' = builder
         ]_build_vars

\* a confirm_build call was refused for the money alone: the preview it found,
\* and left, says the cell can be built on, and no tile was added
C18_Witness ==
    /\ build_called.op = "confirm_build"
    /\ build_called.ret = None
    /\ builder.preview # None
    /\ builder.preview.can_build
    /\ build_called.money < builder.selected_button.cost
    /\ occupied_tiles = {}

\* the confirm_build call of the step finds a selection and a preview whose
\* can_build flag is true
ConfirmingAPreview ==
    /\ Confirming
    /\ builder.selected_button # None
    /\ builder.preview # None
    /\ builder.preview.can_build

\* C19 as stated: every confirm_build that finds a selection and a preview
\* whose can_build flag is true adds exactly one new cell to occupied_tiles
\* and leaves the manager Idle.
C19_ConfirmAfterPreviewBuilds ==
    [][ConfirmingAPreview =>
          /\ Cardinality(occupied_tiles') = Cardinality(occupied_tiles) + 1
          /\ BuilderIdle(builder')
      ]_build_vars

\* C19: a confirm_build that finds a selection and a preview whose can_build
\* flag is true, and is given money of at least the button's cost and a set
\* of occupied tiles without the previewed cell, adds that one cell to the
\* set, returns the button and leaves the manager Idle; a confirm_build that
\* finds no preview, as the one right after a successful confirm_build does,
\* returns None and adds nothing.
C19_ConfirmBuildsOnce ==
    /\ [][(/\ ConfirmingAPreview
           /\ build_called'.money >= builder.selected_button.cost
           /\ builder.preview.grid_position \notin occupied_tiles) =>
             /\ occupied_tiles' = occupied_tiles \cup {builder.preview.grid_position}
             /\ Cardinality(occupied_tiles') = Cardinality(occupied_tiles) + 1
             /\ build_called'.ret = builder.selected_button
             /\ BuilderIdle(builder')
         ]_build_vars
    /\ [][(Confirming /\ builder.preview = None) =>
             /\ build_called'.ret = None
             /\ occupied_tiles' = occupied_tiles
             /\ builder' = builder
         ]_build_vars
    /\ [][(/\ Confirming
           /\ build_called.op = "confirm_build"
           /\ build_called.ret # None) =>
             /\ build_called'.ret = None
             /\ occupied_tiles' = occupied_tiles
         ]_build_vars

\* a confirm_build call given exactly the cost of the button has returned
\* it: one tile is occupied and the manager is Idle
C19_Witness ==
    /\ build_called.op = "confirm_build"
    /\ build_called.ret # None
    /\ build_called.money = build_called.ret.cost
    /\ Cardinality(occupied_tiles) = 1
    /\ BuilderIdle(builder)

\* the cell a pixel position lies in: its coordinates are the largest whole
\* numbers whose multiple of tile_size is not beyond the pixel's
InCell(position, cell, tile_size) ==
    \A k \in 1..2 :
        /\ cell[k] * tile_size <= position[k]
        /\ position[k] < (cell[k] + 1) * tile_size

\* C20: with a button selected, update_preview stores the preview it
\* returns; its cell is the one the mouse position lies in, its pixel
\* position the corner of that cell, its can_build flag is true exactly if
\* the money is at least the cost and the cell is neither blocked nor
\* occupied, and its colour is the OK colour exactly then (the forbidden one
\* otherwise).  With no button selected it clears the preview and returns None.
C20_UpdatePreview ==
    [][build_called'.op = "update_preview" =>
          /\ builder'.selected_button = builder.selected_button
          /\ occupied_tiles' = occupied_tiles
          /\ IF builder.selected_button = None
             THEN builder'.preview = None /\ build_called'.ret = None
             ELSE LET preview == build_called'.ret
                      can_build ==
                          /\ build_called'.money >= builder.selected_button.cost
                          /\ preview.grid_position \notin builder.blocked_tiles
                          /\ preview.grid_position \notin occupied_tiles
                  IN  /\ preview # None
                      /\ builder'.preview = preview
                      /\ InCell(build_called'.mouse_position, preview.grid_position,
                                builder.tile_size)
                      /\ preview.pixel_position
                             = <<preview.grid_position[1] * builder.tile_size,
                                 preview.grid_position[2] * builder.tile_size>>
                      /\ preview.can_build = can_build
                      /\ preview.color = IF can_build THEN PREVIEW_OK_COLOR
                                         ELSE PREVIEW_FORBIDDEN_COLOR
                      /\ PREVIEW_OK_COLOR # PREVIEW_FORBIDDEN_COLOR
      ]_build_vars

\* on tiles of 2 pixels the mouse at <<2, 1>> is in cell <<1, 0>>; the money
\* is enough, but the cell is occupied: the preview is forbidden
C20_Witness ==
    /\ build_called.op = "update_preview"
    /\ build_called.mouse_position = <<2, 1>>
    /\ builder.tile_size = 2
    /\ builder.preview # None
    /\ builder.preview.grid_position = <<1, 0>>
    /\ build_called.money >= builder.selected_button.cost
    /\ builder.preview.grid_position \in occupied_tiles
    /\ ~builder.preview.can_build
    /\ builder.preview.color = PREVIEW_FORBIDDEN_COLOR

\* C21: begin_build(button, money) with money < button.cost returns False and
\* leaves the manager as it was, in Idle and in Selecting (selection and
\* preview stay); with money >= button.cost it returns True, makes the
\* button the selection and clears the preview.  It never touches the
\* caller's occupied tiles.
C21_BeginBuild ==
    [][build_called'.op = "begin_build" =>
          /\ occupied_tiles' = occupied_tiles
          /\ IF build_called'.money < build_called'.button.cost
             THEN /\ build_called'.ret = Returned(FALSE)
                  /\ builder' = builder
             ELSE /\ build_called'.ret = Returned(TRUE)
                  /\ builder'.selected_button = build_called'.button
                  /\ builder'.preview = None
                  /\ builder'.tile_size = builder.tile_size
                  /\ builder'.blocked_tiles = builder.blocked_tiles
      ]_build_vars

\* a begin_build was refused while another button was selected and
\* previewed: both are still there
C21_Witness ==
    /\ build_called.op = "begin_build"
    /\ build_called.ret = Returned(FALSE)
    /\ builder.selected_button # None
    /\ builder.selected_button # build_called.button
    /\ builder.preview # None

\* C22: apply_upgrade with a rung left returns True, adds the rung's range,
\* fire rate and damage bonuses to the tower's range, fire_rate and damage,
\* raises level by one, and leaves cooldown, target and the projectiles in
\* flight (their damage too) as they were, like everything else of the tower
\* and the enemies.
C22_ApplyUpgrade ==
    [][(tick'.op = "apply_upgrade" /\ can_upgrade(tower)) =>
          LET rung == tower.upgrades[tower.level]
          IN  /\ tick'.ret = Returned(TRUE)
              /\ tower'.range = tower.range + rung.range_bonus
              /\ tower'.fire_rate = tower.fire_rate + rung.fire_rate_bonus
              /\ tower'.damage = tower.damage + rung.damage_bonus
              /\ tower'.level = tower.level + 1
              /\ tower'.cooldown = tower.cooldown
              /\ tower'.target = tower.target
              /\ tower'.projectiles = tower.projectiles
              /\ tower'.upgrades = tower.upgrades
              /\ tower'.position = tower.position
              /\ tower'.projectile_speed = tower.projectile_speed
              /\ enemies' = enemies
      ]_<<tower_vars, combat_vars>>

\* an upgrade of the damage was applied while the cooldown of a shot was
\* running at a held target: the projectile of that shot keeps the damage
\* it was fired with
C22_Witness ==
    /\ tick.op = "apply_upgrade"
    /\ tick.ret = Returned(TRUE)
    /\ tower.level = 2
    /\ tower.cooldown > 0
    /\ tower.target # 0
    /\ Len(tower.projectiles) = 1
    /\ tower.projectiles[1].damage < tower.damage

\* C23: a tower's level is at least 1 and level - 1 never exceeds the length
\* of its ladder; can_upgrade returns True exactly if level - 1 is less than
\* that length; with the ladder used up upgrade_cost returns None and
\* apply_upgrade returns False and changes nothing of the tower.
C23_LevelWithinLadder ==
    /\ [](1 <= tower.level /\ tower.level - 1 <= Len(tower.upgrades))
    /\ [][tick'.op = "can_upgrade" =>
             /\ tick'.ret = Returned(tower.level - 1 < Len(tower.upgrades))
             /\ tower' = tower
         ]_<<tower_vars, combat_vars>>
    /\ [][(tick'.op = "upgrade_cost" /\ tower.level - 1 >= Len(tower.upgrades)) =>
             /\ tick'.ret = None
             /\ tower' = tower
         ]_<<tower_vars, combat_vars>>
    /\ [][(tick'.op = "upgrade_cost" /\ tower.level - 1 < Len(tower.upgrades)) =>
             /\ tick'.ret # None
             /\ tick'.ret.cost = tower.upgrades[tower.level].cost
             /\ tower' = tower
         ]_<<tower_vars, combat_vars>>
    /\ [][(tick'.op = "apply_upgrade" /\ tower.level - 1 >= Len(tower.upgrades)) =>
             /\ tick'.ret = Returned(FALSE)
             /\ tower' = tower
         ]_<<tower_vars, combat_vars>>

\* apply_upgrade was refused on a tower that has climbed its whole ladder
C23_Witness ==
    /\ tick.op = "apply_upgrade"
    /\ tick.ret = Returned(FALSE)
    /\ Len(tower.upgrades) >= 1
    /\ tower.level = Len(tower.upgrades) + 1

\* the place a blueprint takes when the list is put in ascending order of
\* wave, blueprints of one wave staying in the order they were given
Rank(j) ==
    1 + Cardinality({k \in 1..Len(blueprints) :
                        \/ blueprints[k].wave < blueprints[j].wave
                        \/ blueprints[k].wave = blueprints[j].wave /\ k < j})

\* the blueprint the i-th returned configuration was made from
SourceOf(i) == blueprints[CHOOSE j \in 1..Len(blueprints) : Rank(j) = i]

\* C24 as stated: of any two configurations apply_difficulty returns, the
\* one of the later wave has at least the health, the speed and the count of
\* the other.
C24_LaterWaveIsHarder ==
    configs # None =>
        \A i, j \in 1..Len(configs.waves) :
            configs.waves[j].wave > configs.waves[i].wave =>
                /\ Leq(configs.waves[i].health, configs.waves[j].health)
                /\ Leq(configs.waves[i].speed, configs.waves[j].speed)
                /\ configs.waves[i].count <= configs.waves[j].count

\* C24: of any two configurations apply_difficulty returns, the one of the
\* later wave has at least the health of the other if its blueprint has at
\* least the other's base health, at least the speed if its blueprint has at
\* least the base speed, and at least the count if its blueprint has at least
\* the count (the configurations come back one for each blueprint, in
\* ascending order of wave).
C24_ScalingIsMonotone ==
    configs # None =>
        /\ Len(configs.waves) = Len(blueprints)
        /\ \A i \in 1..Len(configs.waves) :
              configs.waves[i].wave = SourceOf(i).wave
        /\ \A i, j \in 1..Len(configs.waves) :
              configs.waves[j].wave > configs.waves[i].wave =>
                  /\ SourceOf(j).base_health >= SourceOf(i).base_health =>
                         Leq(configs.waves[i].health, configs.waves[j].health)
                  /\ SourceOf(j).base_speed >= SourceOf(i).base_speed =>
                         Leq(configs.waves[i].speed, configs.waves[j].speed)
                  /\ SourceOf(j).count >= SourceOf(i).count =>
                         configs.waves[i].count <= configs.waves[j].count

\* under the default curve two blueprints of the same stats, given with the
\* later wave first, come back in order of wave, the later one with more
\* health, more speed and a larger count
C24_Witness ==
    /\ configs # None
    /\ curve = None
    /\ Len(blueprints) = 2
    /\ blueprints[1].wave > blueprints[2].wave
    /\ blueprints[1].base_health = blueprints[2].base_health
    /\ blueprints[1].base_speed = blueprints[2].base_speed
    /\ blueprints[1].count = blueprints[2].count
    /\ configs.waves[1].wave < configs.waves[2].wave
    /\ ~Leq(configs.waves[2].health, configs.waves[1].health)
    /\ ~Leq(configs.waves[2].speed, configs.waves[1].speed)
    /\ configs.waves[2].count > configs.waves[1].count

\* the configuration carries a special tag
HasSpecialTag(config) ==
    \E k \in 1..Len(config.difficulty_tags) : config.difficulty_tags[k].tag = "especial"

\* the wave is one of the cadence of the curve
Due(wave) == wave >= curve.special_frequency /\ wave % curve.special_frequency = 0

\* C25: a blueprint without a special (None or empty) gets a special, and a
\* special tag, exactly if its wave is at least special_frequency and a
\* multiple of it, and keeps what it had otherwise; with special_frequency 3
\* the waves 3, 6 and 9 get the tag and the waves 1, 2, 4, 5, 7 and 8 do not.
C25_SpecialOnCadence ==
    configs # None =>
        \A i \in 1..Len(configs.waves) :
            ~Truthy(SourceOf(i).special) =>
                /\ Truthy(configs.waves[i].special) <=> Due(SourceOf(i).wave)
                /\ HasSpecialTag(configs.waves[i]) <=> Due(SourceOf(i).wave)
                /\ ~Due(SourceOf(i).wave) =>
                       configs.waves[i].special = SourceOf(i).special
                /\ curve.special_frequency = 3 =>
                       /\ configs.waves[i].wave \in {3, 6, 9} =>
                              HasSpecialTag(configs.waves[i])
                       /\ configs.waves[i].wave \in {1, 2, 4, 5, 7, 8} =>
                              ~HasSpecialTag(configs.waves[i])

\* with special_frequency 3 the blueprints of waves 6 and 7, both without a
\* special, came back with a special on wave 6 and none on wave 7
C25_Witness ==
    /\ configs # None
    /\ curve.special_frequency = 3
    /\ Len(configs.waves) = 2
    /\ configs.waves[1].wave = 6
    /\ configs.waves[2].wave = 7
    /\ blueprints[1].special = None
    /\ blueprints[2].special = None
    /\ HasSpecialTag(configs.waves[1])
    /\ ~HasSpecialTag(configs.waves[2])
    /\ configs.waves[2].special = None

\* C26: a blueprint with a special keeps it and carries its tag, the last
\* and only special tag, on every wave; a blueprint without one gets on the
\* k-th wave of the cadence (wave = k * special_frequency) the entry
\* (k - 1) mod len(extra_specials) of extra_specials, counted from 0, so the
\* first entry on the first cadence wave and then each in turn.
C26_WhichSpecial ==
    configs # None =>
        \A i \in 1..Len(configs.waves) :
            LET config == configs.waves[i]
                tags == config.difficulty_tags
                extras == curve.extra_specials
            IN  /\ Truthy(SourceOf(i).special) =>
                       /\ config.special = SourceOf(i).special
                       /\ tags # <<>>
                       /\ tags[Len(tags)] = EspecialTag(SourceOf(i).special.str)
                       /\ \A k \in 1..Len(tags) - 1 : tags[k].tag # "especial"
                /\ \A k \in 1..MaxCadenceWave :
                       (/\ ~Truthy(SourceOf(i).special)
                        /\ SourceOf(i).wave = k * curve.special_frequency) =>
                           /\ config.special = Str(extras[((k - 1) % Len(extras)) + 1])
                           /\ tags # <<>>
                           /\ tags[Len(tags)] = EspecialTag(config.special.str)
                           /\ k = 1 => config.special = Str(extras[1])

\* with a special every 2 waves and 2 extra_specials, wave 6 is the third of
\* the cadence and starts the round again with the first entry, while the
\* blueprint of wave 2 keeps the special it came with
C26_Witness ==
    /\ configs # None
    /\ curve.special_frequency = 2
    /\ Len(curve.extra_specials) = 2
    /\ Len(configs.waves) = 2
    /\ configs.waves[1].wave = 2
    /\ configs.waves[1].special = Str("jefe")
    /\ configs.waves[2].wave = 6
    /\ SourceOf(2).special = None
    /\ configs.waves[2].special = Str(curve.extra_specials[1])

\* C27: from stats with money >= 0 and lives >= 0 no sequence of gain_money,
\* spend_money, lose_life, register_enemy_kill, register_purchase and
\* start_wave calls makes money or lives negative; lose_life with an amount
\* of at least the lives left leaves 0 lives, with a smaller one it takes the
\* amount off.
C27_MoneyAndLivesNeverNegative ==
    /\ stats.money >= 0
    /\ stats.lives >= 0
    /\ (stats_called.op = "lose_life" /\ stats_called.amount >= 0) =>
           /\ stats_called.ret = "None"
           /\ stats.lives = IF stats_called.amount >= stats_called.was.lives THEN 0
                            ELSE stats_called.was.lives - stats_called.amount
           /\ stats.money = stats_called.was.money

\* lose_life took more lives than there were: none is left
C27_Witness ==
    /\ stats_called.op = "lose_life"
    /\ stats_called.was.lives = 1
    /\ stats_called.amount = 2
    /\ stats.lives = 0

\* C28: gain_money, spend_money, register_enemy_kill, register_purchase and
\* lose_life called with a negative amount raise ValueError and leave the
\* stats as they were (nothing is clamped); a non-negative amount raises
\* nothing; spend_money and register_purchase with a cost above the money
\* return False and leave the stats as they were, with a cost within it they
\* return True and take it off.
C28_NegativeAmountsRaise ==
    /\ stats_called.op \in {"gain_money", "spend_money", "register_enemy_kill",
                            "register_purchase", "lose_life"} =>
           /\ stats_called.ret = "ValueError" <=> stats_called.amount < 0
           /\ stats_called.ret = "ValueError" => stats = stats_called.was
    /\ (/\ stats_called.op \in {"spend_money", "register_purchase"}
        /\ stats_called.amount >= 0) =>
           IF stats_called.amount > stats_called.was.money
           THEN stats_called.ret = "False" /\ stats = stats_called.was
           ELSE /\ stats_called.ret = "True"
                /\ stats.money = stats_called.was.money - stats_called.amount
                /\ stats.lives = stats_called.was.lives
    /\ (/\ stats_called.op \in {"gain_money", "register_enemy_kill"}
        /\ stats_called.amount >= 0) =>
           /\ stats_called.ret = "None"
           /\ stats.money = stats_called.was.money + stats_called.amount
           /\ stats.lives = stats_called.was.lives

\* register_enemy_kill was called with a negative reward on stats that had
\* money: it raised and the money is what it was
C28_Witness ==
    /\ stats_called.op = "register_enemy_kill"
    /\ stats_called.amount = -1
    /\ stats_called.ret = "ValueError"
    /\ stats.money = 1
    /\ stats = stats_called.was

\* C29: the runtime state exists only while spawns are pending: in every
\* state reached by start_next_wave, update, reset and load_progress calls, on
\* any wave table, waves with no spawns included, wave_in_progress implies
\* that the spawn queue is not empty.
C29_InProgressHasPendingSpawns ==
    wave_in_progress(Self) => state.spawns # <<>>

\* the held target is alive and within range once the projectiles of this
\* update have flown
StillHeld ==
    /\ tower.target # 0
    /\ enemies'[tower.target].alive
    /\ WithinRange(tower, distance_to(tower, enemies'[tower.target]))

\* the enemy the newest projectile of the tower flies at
LastShotAt(self) == self.projectiles[Len(self.projectiles)].target

\* C30: target retention: update replaces the held target only when it is
\* none, not alive or farther than range, and then by select_target; while the
\* held target is alive and within range the tower keeps it, whatever other
\* enemies are closer, every shot of the update flies at it, and the update
\* fires unless the tower is still cooling down.
C30_TargetRetention ==
    [][tower_called' = "update" =>
          /\ StillHeld =>
                /\ tower'.target = tower.target
                /\ tick'.fired => LastShotAt(tower') = tower.target
                /\ ~tick'.fired => tower'.cooldown > 0
          /\ tower'.target # tower.target => ~StillHeld
          /\ ~StillHeld => tower'.target = select_target(tower, enemies')]_vars

\* an update has fired at the held target, which is alive and within range,
\* while another live enemy is strictly closer to the tower: select_target
\* would have returned that one
C30_Witness ==
    /\ tower_called = "update"
    /\ tick.fired
    /\ tower.target # 0
    /\ enemies[tower.target].alive
    /\ WithinRange(tower, distance_to(tower, enemies[tower.target]))
    /\ LastShotAt(tower) = tower.target
    /\ \E j \in 1..Len(enemies) :
           /\ enemies[j].alive
           /\ distance_to(tower, enemies[j]) < distance_to(tower, enemies[tower.target])
    /\ select_target(tower, enemies) # tower.target

\* enemy i is alive and within the range of the tower
LiveInRange(self, es, i) ==
    es[i].alive /\ WithinRange(self, distance_to(self, es[i]))

\* C31: whenever update returns, the target of the tower is none or an enemy
\* alive and within range at that moment, and a projectile spawned by the
\* update flies at such a target: a tower never fires at a dead or
\* out-of-range enemy.
C31_TargetIsLiveAndInRange ==
    [][tower_called' = "update" =>
          /\ tower'.target # 0 => LiveInRange(tower', enemies', tower'.target)
          /\ tick'.fired =>
                /\ tower'.target # 0
                /\ LastShotAt(tower') = tower'.target
                /\ LiveInRange(tower', enemies', LastShotAt(tower'))]_vars

\* an update in which a projectile killed an enemy has fired at another one,
\* alive and within range
C31_Witness ==
    /\ tower_called = "update"
    /\ tick.fired
    /\ tick.hits # <<>>
    /\ tower.target # 0
    /\ LiveInRange(tower, enemies, tower.target)
    /\ LastShotAt(tower) = tower.target
    /\ \E j \in 1..Len(enemies) : j # tower.target /\ ~enemies[j].alive

\* C32: a tower fires only at members of the candidate collection passed to
\* that update call: an enemy taken out of the active set, for example after
\* reaching the goal while still alive, is never fired at again by a tower
\* that held it as target.
C32_FiresOnlyAtCandidates ==
    [][(tower_called' = "update" /\ tick'.fired) => LastShotAt(tower') \in active]_vars

\* C33: over every sequence of begin_build, update_preview, confirm_build and
\* cancel calls, with any occupied set and money passed per call, a successful
\* confirm_build never places a tower on a cell that is in blocked_tiles or
\* already in the occupied_tiles passed to that confirm_build call.
C33_NeverBuildsOnTakenCell ==
    [][(build_called'.op = "confirm_build" /\ build_called'.ret # None) =>
          /\ builder.preview.grid_position \notin builder.blocked_tiles
          /\ builder.preview.grid_position \notin occupied_tiles]_vars

RECURSIVE SnapsFrom(_, _, _, _)
\* where the arrival snaps alone take an entity: over every next waypoint
\* within the threshold of the position it then has
SnapsFrom(position, path, index, arrival_threshold) ==
    IF index + 1 >= Len(path) THEN Walker(position, index)
    ELSE IF Apart(position, PathAt(path, index + 1)) <= arrival_threshold
    THEN SnapsFrom(PathAt(path, index + 1), path, index + 1, arrival_threshold)
    ELSE Walker(position, index)

\* C34: arrival snaps use no travel budget and are tested before the test of
\* the budget: the move after a snap has the budget the snap had, a next
\* waypoint within arrival_threshold is always snapped onto and never stepped
\* to, and a call first crosses every consecutive waypoint within the threshold
\* of the position then held; with a budget speed*dt of 0 that is all it does.
C34_SnapsAreFree ==
    walked.op = "advance_along_path" =>
        LET moves == walked.moves
            n == Len(moves)
            budget == route.speed * walked.dt
            reach == SnapsFrom(walked.from.position, route.path, walked.from.index,
                               route.arrival_threshold)
            crossed == reach.index - walked.from.index
        IN  /\ n >= crossed
            /\ \A i \in 1..crossed :
                  /\ moves[i].kind = "snap"
                  /\ moves[i].remaining_distance = budget
                  /\ moves[i].target = PathAt(route.path, walked.from.index + i)
            /\ walker.index >= reach.index
            /\ budget = 0 => (walker = reach /\ n = crossed)
            /\ \A i \in 1..(n - 1) :
                  moves[i].kind = "snap" =>
                      moves[i + 1].remaining_distance = moves[i].remaining_distance
            /\ \A i \in 1..n :
                  moves[i].distance <= route.arrival_threshold => moves[i].kind = "snap"

\* a call with dt 0 crossed two waypoints, each within the threshold of the
\* one before
C34_Witness ==
    /\ walked.op = "advance_along_path"
    /\ route.speed * walked.dt = 0
    /\ Len(walked.moves) = 2
    /\ walked.moves[1].kind = "snap"
    /\ walked.moves[2].kind = "snap"
    /\ walked.moves[1].distance > 0
    /\ walked.moves[2].distance > 0
    /\ walker.index = walked.from.index + 2
    /\ walker.position = PathAt(route.path, 2)

\* C35: BaseEnemy.update moves an enemy exactly as advance_along_path does:
\* on the same path, with the same speed and arrival tolerance and the same dt
\* values, both starting on the first waypoint, the position of the enemy
\* after every tick is the position advance_along_path returns for that tick.
C35_EnemyMovesAsFollower ==
    enemy_called.op = "update" => base_enemy.position = walker.position

\* C36: over the update calls on one enemy reached_goal turns from false to
\* true at most once (no call turns it back); the update that turns it
\* invokes lose_life of the player it is given exactly once, taking one life
\* and none below 0, and no other update touches the lives; once the enemy
\* has reached the goal, as once it is dead, update changes neither the
\* position nor the waypoint index nor the lives.
C36_GoalReachedOnce ==
    /\ [][Constructed => (base_enemy.reached_goal => base_enemy'.reached_goal)]_vars
    /\ [][enemy_called'.op = "update" =>
             /\ (base_enemy.reached_goal \/ ~base_enemy.alive) =>
                    /\ base_enemy'.position = base_enemy.position
                    /\ base_enemy'.waypoint_index = base_enemy.waypoint_index
                    /\ base_enemy'.reached_goal = base_enemy.reached_goal
                    /\ player' = player
             /\ (/\ ~base_enemy.reached_goal
                 /\ base_enemy'.reached_goal
                 /\ enemy_called'.player) =>
                    player'.lives = Max(0, player.lives - 1)
             /\ base_enemy'.reached_goal = base_enemy.reached_goal =>
                    player' = player
             /\ player'.lives >= 0]_vars

\* an enemy has reached the goal in an update given a player with one life,
\* who has none left
C36_Witness ==
    /\ Constructed
    /\ enemy_called.op = "update"
    /\ enemy_called.player
    /\ base_enemy.reached_goal
    /\ base_enemy.alive
    /\ player.lives = 0

\* C37: advance_along_path returns, after at most one change of position per
\* waypoint passed and one more, an index that is at least the index given
\* and at most len(path)-1; when no next waypoint exists it returns the
\* position and the index it was given, so that an entity on a path of a
\* single waypoint never moves, wherever it stands.
C37_TerminatesWithinPath ==
    /\ walked.op = "advance_along_path" =>
          /\ walked.from.index <= walker.index
          /\ walker.index <= Len(route.path) - 1
          /\ Len(walked.moves) <= (walker.index - walked.from.index) + 1
          /\ get_next_waypoint_index(route.path, walked.from.index) = None =>
                 (walker = walked.from /\ walked.moves = <<>>)
          /\ Len(route.path) = 1 => walker = Walker(PathAt(route.path, 0), 0)
    /\ \A position \in Grid, waypoint \in Grid, dt \in 0..MaxDt,
          arrival_threshold \in 0..MaxThreshold :
          advance_along_path(position, <<waypoint>>, 0, MaxSpeed, dt, arrival_threshold)
              = Advanced(position, 0, <<>>)

\* a call on an entity that stood on the last waypoint of a path of three
\* has returned it where it was
C37_Witness ==
    /\ walked.op = "advance_along_path"
    /\ walked.dt > 0
    /\ Len(route.path) = 3
    /\ walked.from.index = 2
    /\ walker = walked.from
    /\ walker.position # PathAt(route.path, 0)

\* C38: in every state reached by start_next_wave, update, reset and
\* load_progress calls, those that raise included, current_wave_index is at
\* least -1 and at most total_waves - 1, and current_wave_number is
\* current_wave_index + 1, a number from 1 to total_waves, while a wave is
\* active and 0 when idle.
C38_IndexWithinTable ==
    /\ -1 <= current_index
    /\ current_index <= total_waves(waves) - 1
    /\ wave_in_progress(Self) =>
          /\ current_wave_number(Self) = current_index + 1
          /\ 1 <= current_wave_number(Self)
          /\ current_wave_number(Self) <= total_waves(waves)
    /\ ~wave_in_progress(Self) => current_wave_number(Self) = 0

\* a load_progress with the index len(waves) has raised on a manager whose
\* last wave is active: the wave number is still the number of waves
C38_Witness ==
    /\ called.op = "load_progress"
    /\ called.ret = "ValueError"
    /\ called.arg = Len(waves)
    /\ wave_in_progress(Self)
    /\ Len(waves) = MaxWaves
    /\ current_index = Len(waves) - 1
    /\ current_wave_number(Self) = MaxWaves

\* round((multiplier - 1) * 100): the nearest whole number, the even one of
\* two that are equally near
RoundedPercent(multiplier) ==
    LET n == (multiplier.num - multiplier.den) * 100
        q == n \div multiplier.den
        r == n % multiplier.den
    IN  IF 2 * r < multiplier.den THEN q
        ELSE IF 2 * r > multiplier.den THEN q + 1
        ELSE q + (q % 2)

\* the curve apply_difficulty has used
CurveUsed == IF curve = None THEN DefaultCurve ELSE curve

\* the tags of `config` of the kind `tag`
TagsOf(config, tag) ==
    SelectSeq(config.difficulty_tags, LAMBDA t : t.tag = tag)

\* the tag of a multiplier: none for a multiplier of 1, one with the percentage
\* `percent` for a larger one
TagFor(config, multiplier, tag, percent) ==
    IF multiplier.num > multiplier.den
    THEN /\ Len(TagsOf(config, tag)) = 1
         /\ TagsOf(config, tag)[1].percent = percent
    ELSE TagsOf(config, tag) = <<>>

\* C39: whenever the health multiplier is above 1, apply_difficulty appends a
\* health tag with the percentage round((healthMul - 1) * 100), and whenever
\* the speed multiplier is above 1 a speed tag with
\* round((speedMul - 1) * 100); with a multiplier of 1 it appends no such tag.
C39_TagsRoundThePercentage ==
    configs # None =>
        \A i \in 1..Len(configs.waves) :
            LET config == configs.waves[i]
                hm == health_multiplier(CurveUsed, config.wave)
                sm == speed_multiplier(CurveUsed, config.wave)
            IN  /\ TagFor(config, hm, "+vida", RoundedPercent(hm))
                /\ TagFor(config, sm, "+velocidad", RoundedPercent(sm))

\* C40: a BuildManager constructed with an explicit blocked_tiles collection
\* blocks exactly the tiles of it, whatever the collection, the empty one
\* included; the built-in path tiles are used only when the argument is
\* omitted.
C40_BlocksTheTilesGiven ==
    build_called.op = "__init__" =>
        builder.blocked_tiles = IF build_called.blocked_tiles = None
                                THEN BLOCKED_TILES
                                ELSE build_called.blocked_tiles.tiles

====
